---- MODULE Spec2Model ----
(***************************************************************************)
(* Model of the deepchecks excerpt:                                        *)
(*   - nlp/checks/data_integrity/text_property_outliers.py                 *)
(*       TextPropertyOutliers.run_logic, _sample_index_from_flatten_index, *)
(*       _ensure_property_shape, _is_list_of_numbers                       *)
(*   - tabular/context.py   Context.__init__ (argument validation)         *)
(*                                                                         *)
(* Python indices are kept 0-based in the state; TLA+ sequences are        *)
(* 1-based, so element i of a Python list xs is xs[i + 1] here.            *)
(* Floats are fixed-point integers in units of 1/FixedPoint; NaN is a      *)
(* separate tagged value whose every comparison is false, as in IEEE 754.  *)
(***************************************************************************)
EXTENDS Integers, Sequences, FiniteSets, TLC

VARIABLES
    \* ---- _sample_index_from_flatten_index applied to one input ----
    m_lengths,      \* the per-sample lengths whose cumulative sums the mapper gets
    m_flat,         \* the flat index handed to the mapper
    m_out,          \* Pending, or the outcome [raised |-> ..., value |-> ...]
    \* ---- one TextPropertyOutliers check object and its run_logic ----
    n_show_top,     \* self.n_show_top
    dataset,        \* the TextData run_logic was called with (NoDataset before)
    scan,           \* outcome of run_logic: pc, raised, result, and its locals
    \* ---- one tabular Context construction ----
    ctx_args,       \* the arguments Context.__init__ was called with
    ctx,            \* outcome of Context.__init__: raised error or the fields
    \* ---- one _DummyModel built directly and asked to predict ----
    dm,             \* outcome of _DummyModel.__init__: raised error or the model
    dm_call         \* the last predict / predict_proba call and its outcome

vars == <<m_lengths, m_flat, m_out, n_show_top, dataset, scan, ctx_args, ctx, dm, dm_call>>

-----------------------------------------------------------------------------
(* Bounds of the model.                                                    *)

\* largest property value drawn (values are 0..MaxVal)
MaxVal == 1
\* largest dataset size with list-valued properties (number of samples)
MaxSamples == 3
\* longest per-sample value list
MaxLen == 2
\* largest number of flattened values of one property, and largest dataset
\* size with scalar properties
MaxFlat == 4
\* largest n_show_top the check is constructed with
MaxShow == 1

-----------------------------------------------------------------------------
(* Generic sequence helpers (Python list idioms).                          *)

Range(s) == {s[i] : i \in 1..Len(s)}

RECURSIVE SumSeq(_)
SumSeq(s) == IF s = <<>> THEN 0 ELSE s[1] + SumSeq(Tail(s))

RECURSIVE Concat(_)
\* concatenation of a sequence of sequences
Concat(ss) == IF ss = <<>> THEN <<>> ELSE ss[1] \o Concat(Tail(ss))

\* sequences over S of length lo..hi
SeqsOf(S, lo, hi) == UNION {[1..k -> S] : k \in lo..hi}

\* Python xs[:n] for n >= 0
PySliceTo(xs, n) == SubSeq(xs, 1, IF n < Len(xs) THEN n ELSE Len(xs))

\* Python xs[-n:] for n >= 0: the start index -n is taken from the end when it
\* is negative; -0 is 0, so xs[-0:] is the whole list.
PySliceFromNeg(xs, n) ==
    LET start == IF n = 0 THEN 0
                 ELSE IF Len(xs) - n < 0 THEN 0 ELSE Len(xs) - n
    IN SubSeq(xs, start + 1, Len(xs))

-----------------------------------------------------------------------------
(* _sample_index_from_flatten_index  (text_property_outliers.py 250-255)   *)

\* np.cumsum(np.array([len(v) for v in values]))
RECURSIVE CumsumFrom(_, _)
CumsumFrom(lens, acc) ==
    IF lens = <<>> THEN <<>>
    ELSE <<acc + lens[1]>> \o CumsumFrom(Tail(lens), acc + lens[1])

Cumsum(lens) == CumsumFrom(lens, 0)

\* np.argwhere(cumsum_lengths > flatten_index): the 0-based positions, ascending
ArgwhereGreater(cumsum_lengths, flatten_index) ==
    {i \in 0..(Len(cumsum_lengths) - 1) : cumsum_lengths[i + 1] > flatten_index}

ArgwhereGreaterEq(cumsum_lengths, flatten_index) ==
    {i \in 0..(Len(cumsum_lengths) - 1) : cumsum_lengths[i + 1] >= flatten_index}

MinOf(S) == CHOOSE x \in S : \A y \in S : x <= y

\* mutant: compares with >= instead of >
SampleIndexGe(cumsum_lengths, flatten_index) ==
    LET hits == ArgwhereGreaterEq(cumsum_lengths, flatten_index)
    IN IF hits = {} THEN [raised |-> "IndexError", value |-> 0]
       ELSE [raised |-> "none", value |-> MinOf(hits)]

\* np.argwhere(cumsum_lengths > flatten_index)[0][0]; [0] of an empty result
\* raises IndexError
SampleIndexFromFlattenIndex(cumsum_lengths, flatten_index) ==
    LET hits == ArgwhereGreater(cumsum_lengths, flatten_index)
    IN IF hits = {} THEN [raised |-> "IndexError", value |-> 0]
       ELSE [raised |-> "none", value |-> MinOf(hits)]

-----------------------------------------------------------------------------
(* Python values held by a property column.                                *)
(*   t = "num"    a number (int/float), v its value                        *)
(*   t = "none"   None / NaN (a missing value)                             *)
(*   t = "str"    a non-numeric string such as 'a'                         *)
(*   t = "numstr" a one-character numeric string such as '2', v its value  *)
(*   t = "list"   a Python list, items its elements                        *)

Num(v) == [t |-> "num", v |-> v, items |-> <<>>]
NoneVal == [t |-> "none", v |-> 0, items |-> <<>>]
StrVal == [t |-> "str", v |-> 0, items |-> <<>>]
NumStr(v) == [t |-> "numstr", v |-> v, items |-> <<>>]
Lst(xs) == [t |-> "list", v |-> 0, items |-> xs]

\* isinstance(x, list)
IsList(x) == x.t = "list"

\* isinstance(x, t.Sequence): lists and strings are sequences
IsSequence(x) == x.t \in {"list", "str", "numstr"}

\* isinstance(x, Number)
IsNumber(x) == x.t = "num"

(* Floats: [nan |-> FALSE, v |-> n] or NaN.                                *)
Flt(n) == [nan |-> FALSE, v |-> n]
NaN == [nan |-> TRUE, v |-> 0]

\* a < b on floats; any comparison with NaN is false
FloatLt(a, b) == ~a.nan /\ ~b.nan /\ a.v < b.v

\* Python min(xs) over a non-empty iterable: keeps the first element and
\* replaces it only by an element that compares smaller
RECURSIVE PyMinFrom(_, _)
PyMinFrom(xs, m) ==
    IF xs = <<>> THEN m
    ELSE PyMinFrom(Tail(xs), IF FloatLt(xs[1], m) THEN xs[1] ELSE m)

PyMin(xs) == PyMinFrom(Tail(xs), xs[1])

\* Python max(xs): replaces the kept element only by one that compares greater
RECURSIVE PyMaxFrom(_, _)
PyMaxFrom(xs, m) ==
    IF xs = <<>> THEN m
    ELSE PyMaxFrom(Tail(xs), IF FloatLt(m, xs[1]) THEN xs[1] ELSE m)

PyMax(xs) == PyMaxFrom(Tail(xs), xs[1])

-----------------------------------------------------------------------------
(* iqr_outliers_range (deepchecks.utils.outliers; not part of the excerpt, *)
(* modelled from the specification, section 4.1): percentiles are taken    *)
(* over the non-null values with linear interpolation; too few non-null    *)
(* values signals NotEnoughSamplesError.                                   *)

\* self.iqr_percentiles default (25, 75)
IqrPLow == 25
IqrPHigh == 75
\* self.iqr_scale default 1.5 = IqrScaleNum / IqrScaleDen
IqrScaleNum == 3
IqrScaleDen == 2
\* percentiles are whole percents
Percent == 100

\* one float unit: limits are integers in units of 1/FixedPoint
FixedPoint == Percent * IqrScaleDen

\* minimum number of non-null values the estimator accepts (the specification
\* names a threshold without giving its value; scaled down)
MinSamples == 3

RECURSIVE InsertAsc(_, _)
InsertAsc(sorted, x) ==
    IF sorted = <<>> THEN <<x>>
    ELSE IF x < sorted[1] THEN <<x>> \o sorted
    ELSE <<sorted[1]>> \o InsertAsc(Tail(sorted), x)

RECURSIVE SortAsc(_)
SortAsc(xs) == IF xs = <<>> THEN <<>> ELSE InsertAsc(SortAsc(Tail(xs)), xs[1])

\* the non-null entries of a float array, as integers
NonNull(arr) ==
    LET keep == SelectSeq(arr, LAMBDA x : ~x.nan)
    IN [i \in 1..Len(keep) |-> keep[i].v]

\* percentile p of a sorted non-empty integer sequence, in units of 1/Percent
PercentileOf(sorted, p) ==
    LET pos == (Len(sorted) - 1) * p
        fl == pos \div Percent
        fr == pos % Percent
    IN IF fr = 0 THEN Percent * sorted[fl + 1]
       ELSE Percent * sorted[fl + 1] + fr * (sorted[fl + 2] - sorted[fl + 1])

\* (lower, upper) in units of 1/FixedPoint, or the insufficient-samples error
IqrOutliersRange(data) ==
    LET nn == NonNull(data)
    IN IF Len(nn) < MinSamples
       THEN [err |-> TRUE, lower |-> 0, upper |-> 0]
       ELSE LET s == SortAsc(nn)
                q1 == PercentileOf(s, IqrPLow)
                q3 == PercentileOf(s, IqrPHigh)
                iqr == q3 - q1
            IN [err |-> FALSE,
                lower |-> IqrScaleDen * q1 - IqrScaleNum * iqr,
                upper |-> IqrScaleDen * q3 + IqrScaleNum * iqr]

-----------------------------------------------------------------------------
(* TextPropertyOutliers.run_logic, one property  (lines 112-166)           *)

\* lines 115-116: a column whose first value is not a list has every value
\* wrapped in a one-element list
NormalizeValues(values) ==
    IF ~IsList(values[1])
    THEN [i \in 1..Len(values) |-> Lst(<<values[i]>>)]
    ELSE values

\* len(v) raises TypeError for a number or None; a string has a length
LenRaises(v) == v.t \in {"num", "none"}

\* len(v): the model's strings are one character long
PyLen(v) == IF v.t = "list" THEN Len(v.items) ELSE 1

\* np.atleast_1d(v) as the list of its elements (a string is one element)
Elements(v) == IF v.t = "list" THEN v.items ELSE <<v>>

\* np.hstack(values): the first array is one-dimensional, so a sample holding
\* a nested list (two-dimensional) makes the concatenation raise ValueError
HstackRaises(values) ==
    \E i \in 1..Len(values) : \E j \in 1..Len(Elements(values[i])) :
        IsList(Elements(values[i])[j])

Hstack(values) == Concat([i \in 1..Len(values) |-> Elements(values[i])])

\* .astype(float): a non-numeric string raises ValueError
AstypeRaises(flat) == \E i \in 1..Len(flat) : flat[i].t = "str"

\* .astype(float): None becomes NaN, a numeric string is parsed
ToFloat(x) == IF x.t = "none" THEN NaN ELSE Flt(x.v)

AsFloatArray(flat) == [i \in 1..Len(flat) |-> ToFloat(flat[i])]

\* a float array value given in natural units, in units of 1/FixedPoint
Scaled(x) == IF x.nan THEN NaN ELSE Flt(x.v * FixedPoint)

\* np.argwhere(values_arr > upper_limit).squeeze(axis=1): 0-based, ascending
ArgwhereAbove(values_arr, upper_limit) ==
    LET hit(i) == FloatLt(Flt(upper_limit), Scaled(values_arr[i]))
        pos == SelectSeq([i \in 1..Len(values_arr) |-> i], hit)
    IN [k \in 1..Len(pos) |-> pos[k] - 1]

\* np.argwhere(values_arr < lower_limit).squeeze(axis=1)
ArgwhereBelow(values_arr, lower_limit) ==
    LET hit(i) == FloatLt(Scaled(values_arr[i]), Flt(lower_limit))
        pos == SelectSeq([i \in 1..Len(values_arr) |-> i], hit)
    IN [k \in 1..Len(pos) |-> pos[k] - 1]

\* idx[values_arr[idx].argsort()]: flat indices ordered by their value,
\* ascending; equal values keep their order (numpy sorts short arrays by
\* insertion)
RECURSIVE InsertByValue(_, _, _)
InsertByValue(sorted, f, values_arr) ==
    IF sorted = <<>> THEN <<f>>
    ELSE IF values_arr[f + 1].v < values_arr[sorted[1] + 1].v
         THEN <<f>> \o sorted
         ELSE <<sorted[1]>> \o InsertByValue(Tail(sorted), f, values_arr)

RECURSIVE SortByValueRev(_, _)
SortByValueRev(rev, values_arr) ==
    IF rev = <<>> THEN <<>>
    ELSE InsertByValue(SortByValueRev(Tail(rev), values_arr), rev[1], values_arr)

Reverse(xs) == [i \in 1..Len(xs) |-> xs[Len(xs) + 1 - i]]

SortByValue(idx, values_arr) == SortByValueRev(Reverse(idx), values_arr)

\* line 142: np.concatenate((bottom_outliers[:n], top_outliers[-n:]))
ShowIndices(bottom_outliers, top_outliers, n) ==
    PySliceTo(bottom_outliers, n) \o PySliceFromNeg(top_outliers, n)

\* lines 146-154 counting the value from the start of the flat array
CorpusEntryFromStart(values, values_arr, cumsum, outlier_index) ==
    LET sample_index == SampleIndexFromFlattenIndex(cumsum, outlier_index).value
    IN [value |-> values_arr[outlier_index + 1],
        sample_index |-> sample_index,
        index_of_value_in_sample |-> cumsum[sample_index + 1] - outlier_index,
        num_properties_in_sample |-> PyLen(values[sample_index + 1])]

\* lines 146-154: what plot_text is called with for one displayed outlier
CorpusEntry(values, values_arr, cumsum, outlier_index) ==
    LET sample_index == SampleIndexFromFlattenIndex(cumsum, outlier_index).value
    IN [value |-> values_arr[outlier_index + 1],
        sample_index |-> sample_index,
        index_of_value_in_sample |-> (cumsum[sample_index + 1] - outlier_index) * (-1),
        num_properties_in_sample |-> PyLen(values[sample_index + 1])]

\* line 164: max(lower_limit, min(values_arr)); Python's max keeps its first
\* argument unless the second compares greater
ClipLower(lower_limit, values_arr) ==
    LET m == Scaled(PyMin(values_arr))
    IN IF FloatLt(Flt(lower_limit), m) THEN m ELSE Flt(lower_limit)

\* line 165: min(upper_limit, max(values_arr))
ClipUpper(upper_limit, values_arr) ==
    LET m == Scaled(PyMax(values_arr))
    IN IF FloatLt(m, Flt(upper_limit)) THEN m ELSE Flt(upper_limit)

\* line 124: the placeholder stored for a property with too few samples
Placeholder ==
    [text |-> "Not enough non-null samples to calculate outliers.",
     indices |-> <<>>, lower_limit |-> NaN, upper_limit |-> NaN]

\* the loop body's local variables, kept for the properties stated below
NoLocals ==
    [estimated |-> FALSE, lower |-> 0, upper |-> 0,
     top_outliers |-> <<>>, bottom_outliers |-> <<>>,
     show_indices |-> <<>>, corpus |-> <<>>]

\* mutant: the insufficient-samples error is not caught
NotEnoughSamplesPropagates == [raised |-> "NotEnoughSamplesError", res |-> Placeholder, locals |-> NoLocals]

\* lines 123-125: except NotEnoughSamplesError: store the placeholder, continue
OnNotEnoughSamples == [raised |-> "none", res |-> Placeholder, locals |-> NoLocals]

\* mutant: outliers are flagged with non-strict comparisons
OutlierGroupsNonStrict(values_arr, lower_limit, upper_limit) ==
    [top |-> SortByValue(ArgwhereAbove(values_arr, upper_limit - 1), values_arr),
     bottom |-> SortByValue(ArgwhereBelow(values_arr, lower_limit + 1), values_arr)]

\* lines 127-139: the flat indices above upper / below lower, sorted by value
OutlierGroups(values_arr, lower_limit, upper_limit) ==
    [top |-> SortByValue(ArgwhereAbove(values_arr, upper_limit), values_arr),
     bottom |-> SortByValue(ArgwhereBelow(values_arr, lower_limit), values_arr)]

\* lines 127-166 for a property whose range was estimated
ScanEstimated(values, values_arr, cumsum, range, index, n) ==
    LET groups == OutlierGroups(values_arr, range.lower, range.upper)
        show_indices == ShowIndices(groups.bottom, groups.top, n)
        all == groups.bottom \o groups.top
        text_outliers ==
            [k \in 1..Len(all) |-> SampleIndexFromFlattenIndex(cumsum, all[k]).value]
    IN [raised |-> "none",
        res |-> [text |-> "",
                 indices |-> [k \in 1..Len(text_outliers) |-> index[text_outliers[k] + 1]],
                 lower_limit |-> ClipLower(range.lower, values_arr),
                 upper_limit |-> ClipUpper(range.upper, values_arr)],
        locals |-> [estimated |-> TRUE, lower |-> range.lower, upper |-> range.upper,
                    top_outliers |-> groups.top, bottom_outliers |-> groups.bottom,
                    show_indices |-> show_indices,
                    corpus |-> [k \in 1..Len(show_indices) |->
                                   CorpusEntry(values, values_arr, cumsum, show_indices[k])]]]

Raise(kind) == [raised |-> kind, res |-> Placeholder, locals |-> NoLocals]

\* lines 112-166: the loop body for one property column
ScanProperty(column, index, n) ==
    LET values == NormalizeValues(column)
    IN IF \E i \in 1..Len(values) : LenRaises(values[i]) THEN Raise("TypeError")
       ELSE IF HstackRaises(values) THEN Raise("ValueError")
       ELSE IF AstypeRaises(Hstack(values)) THEN Raise("ValueError")
       ELSE LET values_lengths_cumsum == Cumsum([i \in 1..Len(values) |-> PyLen(values[i])])
                values_arr == AsFloatArray(Hstack(values))
                range == IqrOutliersRange(values_arr)
            IN IF range.err THEN OnNotEnoughSamples
               ELSE ScanEstimated(values, values_arr, values_lengths_cumsum, range, index, n)

-----------------------------------------------------------------------------
(* _ensure_property_shape / _is_list_of_numbers  (lines 225-247).          *)
(* Defined in the module; run_logic never calls them.                      *)

\* iterating a string yields its characters, which are strings
IsListOfNumbers(l) ==
    IF l.t = "list"
    THEN ~\E i \in 1..Len(l.items) : l.items[i].t # "none" /\ ~IsNumber(l.items[i])
    ELSE FALSE

\* "none" or the error the validator raises
EnsurePropertyShape(property_values, data_len) ==
    IF Len(property_values) # data_len THEN "DeepchecksProcessError"
    ELSE IF IsSequence(property_values[1])
    THEN IF \E i \in 1..Len(property_values) : ~IsSequence(property_values[i])
         THEN "DeepchecksProcessError"
         ELSE IF \E i \in 1..Len(property_values) : ~IsListOfNumbers(property_values[i])
         THEN "DeepchecksProcessError"
         ELSE "none"
    ELSE IF ~IsListOfNumbers(Lst(property_values)) THEN "DeepchecksProcessError"
    ELSE "none"

-----------------------------------------------------------------------------
(* TextPropertyOutliers.run_logic, the whole call  (lines 100-201).        *)
(* The display part (lines 168-199) only renders `result` and is left to   *)
(* the display collaborator.                                               *)

\* line 107: only the columns typed 'numeric' are scanned
NumericProperties(ds) == SelectSeq(ds.properties, LAMBDA p : p.type = "numeric")

NoOutcome == [pc |-> "idle", raised |-> "none", result |-> <<>>, locals |-> <<>>]

\* lines 112-166: the loop; an exception leaves run_logic, losing `result`
RECURSIVE RunLogicFrom(_, _, _, _)
RunLogicFrom(props, index, n, acc) ==
    IF props = <<>> THEN acc
    ELSE LET r == ScanProperty(props[1].values, index, n)
         IN IF r.raised # "none"
            THEN [pc |-> "raised", raised |-> r.raised, result |-> <<>>, locals |-> <<>>]
            ELSE RunLogicFrom(Tail(props), index, n,
                     [pc |-> "returned", raised |-> "none",
                      result |-> Append(acc.result, [name |-> props[1].name, res |-> r.res]),
                      locals |-> Append(acc.locals, r.locals)])

RunLogicOutcome(ds, n) ==
    RunLogicFrom(NumericProperties(ds), ds.index, n,
                 [pc |-> "returned", raised |-> "none", result |-> <<>>, locals |-> <<>>])

-----------------------------------------------------------------------------
(* The datasets run_logic is called with.                                  *)

ScalarValues == {Num(v) : v \in 0..MaxVal} \cup {NoneVal}

\* a column with one scalar per sample
ScalarColumns(n) == [1..n -> ScalarValues]

\* the per-sample list lengths of a column: each at most MaxLen, at most
\* MaxFlat values in all
LengthVectors(n) == {l \in [1..n -> 0..MaxLen] : SumSeq(l) <= MaxFlat}

\* the flat values cut into per-sample lists of the given lengths
Split(flat, lens) ==
    LET cs == Cumsum(lens)
    IN [i \in 1..Len(lens) |-> Lst(SubSeq(flat, cs[i] - lens[i] + 1, cs[i]))]

Pad(prefix, n, filler) ==
    [i \in 1..n |-> IF i <= Len(prefix) THEN prefix[i] ELSE filler]

\* columns that break the property contract: scalar/list mixes, strings
OddColumns(n) ==
    {Pad(<<Num(1), Lst(<<Num(MaxVal), Num(0)>>)>>, n, Num(1)),
     Pad(<<Lst(<<Num(1), Num(MaxVal)>>), Num(0)>>, n, Lst(<<Num(1)>>)),
     Pad(<<>>, n, StrVal),
     Pad(<<NumStr(MaxVal)>>, n, NumStr(0)),
     Pad(<<Lst(<<StrVal, StrVal>>)>>, n, Lst(<<StrVal>>)),
     Pad(<<Lst(<<NumStr(MaxVal), NumStr(0)>>)>>, n, Lst(<<NumStr(0), NumStr(0)>>))}

\* fixed columns with more outliers than the drawn ones can hold: one with a
\* bottom and a top outlier, one with two top outliers, one with two bottom
\* outliers spread over multi-valued samples
ExampleColumns(n) ==
    {Pad(<<Lst(<<Num(0), Num(1), Num(1), Num(1), Num(2)>>)>>, n, Lst(<<>>)),
     Pad(<<Lst(<<Num(2), Num(0), Num(0), Num(0)>>)>>, n, Lst(<<Num(0), Num(0), Num(0), Num(1)>>)),
     Pad(<<Lst(<<Num(5), Num(5), Num(1), Num(5)>>)>>, n, Lst(<<Num(5), Num(5), Num(5), Num(0)>>))}

\* the columns that accompany another one in a two-property dataset
CompanionColumns(n) ==
    {[type |-> "numeric", values |-> [i \in 1..n |-> NoneVal]],
     [type |-> "categorical", values |-> [i \in 1..n |-> StrVal]],
     [type |-> "numeric",
      values |-> Pad(<<Lst(<<Num(0), Num(0), Num(0), Num(MaxVal)>>)>>, n, Lst(<<>>))]}

\* the columns paired with a companion
PairedColumns(n) ==
    (IF n <= MaxFlat THEN ScalarColumns(n) ELSE {}) \cup OddColumns(n) \cup ExampleColumns(n)

\* dataset sizes
MaxSize == IF MaxFlat > MaxSamples THEN MaxFlat ELSE MaxSamples

Named(name, col) == [name |-> name, type |-> col.type, values |-> col.values]

\* a numeric column named p1, alone in its table
Single(c) == <<Named("p1", [type |-> "numeric", values |-> c])>>

\* a numeric column with a companion before or after it
Paired(c, f, first) ==
    IF first
    THEN <<Named("p1", [type |-> "numeric", values |-> c]), Named("p2", f)>>
    ELSE <<Named("p1", f), Named("p2", [type |-> "numeric", values |-> c])>>

\* dataset.index: the label of sample i
DatasetIndex(n) == [i \in 1..n |-> 10 * i]

\* a dataset of n samples with property table t
Dataset(n, t) == [index |-> DatasetIndex(n), properties |-> t]

NoDataset == [index |-> <<>>, properties |-> <<>>]

\* lengths of per-sample value lists, for the index mapper
-----------------------------------------------------------------------------
(* tabular Context.__init__ (context.py lines 169-267): the validation of   *)
(* its arguments and the class list it hands on to inference.              *)

\* longest explicit class list drawn
MaxClasses == 3

\* column names a dataset may use, and the labels a class list may hold
ColumnNames == {"a", "b"}
ClassValues == {0, 1, 2}

\* a dataset argument left at None
NoData ==
    [given |-> FALSE, label |-> "", features |-> "", cat_features |-> "",
     index |-> "", date |-> "", label_type |-> "none", categorical |-> TRUE,
     labels |-> <<>>, rows |-> <<>>]

\* one row of dataset.data: its index label and the content of its feature
\* columns.  prefix holds the role prefixes f'train-{x}' / f'test-{x}' put in
\* front of the label so far, outermost first.
DataRow(id, x) == [prefix |-> <<>>, id |-> id, x |-> x]
LabelOf(row) == [prefix |-> row.prefix, id |-> row.id]

\* a Dataset: the names of its label column ("" when it has none), of its
\* feature columns, categorical features, index column and date column
TabularData(label, features, cat_features, index, date) ==
    [given |-> TRUE, label |-> label, features |-> features,
     cat_features |-> cat_features, index |-> index, date |-> date,
     label_type |-> "none", categorical |-> TRUE,
     labels |-> IF label = "" THEN <<>> ELSE <<0, 1>>,
     rows |-> <<DataRow(0, 0), DataRow(1, 0)>>]

\* the same Dataset holding the rows with the given index labels, one label
\* value per row when it has a label column (NullLabel for a missing value),
\* its declared label_type ("none" when not declared), and whether its label
\* column counts as categorical
WithRows(ds, label_type, categorical, labels, rows) ==
    [ds EXCEPT !.label_type = label_type, !.categorical = categorical,
               !.labels = labels, !.rows = rows]

\* a missing label value (NaN), dropped by dropna()
NullLabel == -1

\* bool(dataset) as in "if train and test": a Dataset holds at least one row
Truthy(ds) == ds.given

\* Dataset.has_label and the Dataset.datasets_share_* class methods
HasLabel(ds) == ds.label # ""
DatasetsShareLabel(train, test) == train.label = test.label
DatasetsShareFeatures(train, test) == train.features = test.features
DatasetsShareCategoricalFeatures(train, test) == train.cat_features = test.cat_features
DatasetsShareIndex(train, test) == train.index = test.index
DatasetsShareDate(train, test) == train.date = test.date

\* the model argument: None, an estimator, an estimator that declares its
\* classes, or an object that is no model at all
Models == {"none", "estimator", "classifier", "not_a_model"}

\* model_type_validation raises on an object without predict
ModelTypeValidationRaises(model) == model = "not_a_model"

\* the feature_importance argument: None, a series over train's features,
\* or a series validate_feature_importance rejects
Importances == {"none", "valid", "invalid"}
ValidateFeatureImportanceRaises(feature_importance) == feature_importance = "invalid"

\* the model_classes argument: None, or a list
NoClasses == [given |-> FALSE, items |-> <<>>]
Classes(xs) == [given |-> TRUE, items |-> xs]

\* bool(model_classes): None and the empty list are both falsy
ClassesTruthy(model_classes) == model_classes.given /\ Len(model_classes.items) > 0

\* sorted(xs) on a list of numbers
PyInsert(x, sorted) ==
    LET k == Cardinality({i \in 1..Len(sorted) : sorted[i] <= x})
    IN  SubSeq(sorted, 1, k) \o <<x>> \o SubSeq(sorted, k + 1, Len(sorted))

RECURSIVE PySortedFrom(_, _)
PySortedFrom(xs, i) ==
    IF i = 0 THEN <<>> ELSE PyInsert(xs[i], PySortedFrom(xs, i - 1))

PySorted(xs) == PySortedFrom(xs, Len(xs))

\* infer_classes_from_model: the classes the model declares, or None
InferClassesFromModel(model) ==
    IF model = "classifier" THEN Classes(<<0, 1>>) ELSE NoClasses

\* the messages of the errors the constructor raises
MsgNothing == "At least one dataset (or model) must be passed to the method!"
MsgLabel == "train and test requires to have and to share the same label"
MsgFeatures == "train and test requires to share the same features columns"
MsgCategorical == "train and test datasets should share the same categorical features"
MsgIndex == "train and test requires to share the same index column"
MsgDate == "train and test requires to share the same date column"
MsgOnlyTest == "Can't initialize context with only test"
MsgNotModel == "Model supplied does not meets the minimal interface requirements"
MsgImportance == "feature_importance does not fit the features"
MsgNoFeatures == "'NoneType' object has no attribute 'features'"
MsgEmpty == "Received empty model_classes"
MsgUnsorted == "Received unsorted model_classes"

\* an array argument left at None, or given with one entry per row
NoArray == [given |-> FALSE, items |-> <<>>]
Array(xs) == [given |-> TRUE, items |-> xs]

\* a probability matrix argument: its number of columns and, per row, the
\* column holding the row's maximum
NoProba == [given |-> FALSE, ncols |-> 0, argmax |-> <<>>]
Proba(ncols, argmax) == [given |-> TRUE, ncols |-> ncols, argmax |-> argmax]

\* the Context before construction
NoArgs ==
    [train |-> NoData, test |-> NoData, model |-> "none",
     feature_importance |-> "none",
     y_pred_train |-> NoArray, y_pred_test |-> NoArray,
     y_proba_train |-> NoProba, y_proba_test |-> NoProba,
     model_classes |-> NoClasses]

-----------------------------------------------------------------------------
(* _DummyModel (context.py lines 41-152): static predictions served by the  *)
(* index labels of the rows asked for.                                      *)

\* no _DummyModel
NoAdapter ==
    [built |-> FALSE, model_classes |-> NoClasses, rewritten |-> FALSE,
     feature_df_list |-> <<>>, predictions |-> <<>>, probas |-> <<>>,
     has_predict |-> FALSE, has_predict_proba |-> FALSE,
     validate_data_on_predict |-> TRUE]

\* set(dataset.data.index)
IndexSet(ds) == {LabelOf(ds.rows[i]) : i \in 1..Len(ds.rows)}

\* line 79 / 80: dataset.data.index = map(lambda x: f'<role>-{x}', ...)
PrefixIndex(role, ds) ==
    [ds EXCEPT !.rows = [i \in 1..Len(ds.rows) |->
                            [ds.rows[i] EXCEPT !.prefix = <<role>> \o @]]]

\* line 78: both datasets given and their index sets intersect
CommonIndex(train, test) ==
    train.given /\ test.given /\ IndexSet(train) \cap IndexSet(test) # {}

\* validate_proba(y_proba, model_classes): len(model_classes) fails on None,
\* and the matrix needs one column per class
ValidateProbaRaises(y_proba, model_classes) ==
    IF ~model_classes.given THEN "TypeError"
    ELSE IF y_proba.ncols # Len(model_classes.items) THEN "DeepchecksValueError"
    ELSE "none"

\* ensure_predictions_shape / ensure_predictions_proba: one entry per row
EnsurePredictionsShapeRaises(y_pred, ds) == Len(y_pred.items) # Len(ds.rows)
EnsurePredictionsProbaRaises(y_proba, y_pred) == Len(y_proba.argmax) # Len(y_pred.items)

\* lines 97-99: np.array(model_classes)[np.argmax(y_proba, axis=-1)]
ArgmaxClasses(y_proba, model_classes) ==
    Array([i \in 1..Len(y_proba.argmax) |-> model_classes.items[y_proba.argmax[i] + 1]])

\* pd.Series(values, index=dataset.data.index) as a list of (label, value)
Series(values, ds) ==
    [i \in 1..Len(ds.rows) |-> [label |-> LabelOf(ds.rows[i]), value |-> values[i]]]

\* what one pass of the loop (lines 89-112) adds for one role
NothingStored == [raised |-> "none", tables |-> <<>>, predictions |-> <<>>,
                  probas |-> <<>>, has_pred |-> FALSE, has_proba |-> FALSE]

RoleStored(ds, y_pred, y_proba, model_classes) ==
    IF ~ds.given THEN NothingStored
    ELSE IF ~y_pred.given /\ y_proba.given
            /\ ValidateProbaRaises(y_proba, model_classes) # "none"
    THEN [NothingStored EXCEPT !.raised = ValidateProbaRaises(y_proba, model_classes)]
    ELSE LET pred == IF ~y_pred.given /\ y_proba.given
                     THEN ArgmaxClasses(y_proba, model_classes)
                     ELSE y_pred
         IN IF ~pred.given THEN [NothingStored EXCEPT !.tables = <<ds.rows>>]
            ELSE IF EnsurePredictionsShapeRaises(pred, ds)
            THEN [NothingStored EXCEPT !.raised = "ValidationError"]
            ELSE IF y_proba.given /\ EnsurePredictionsProbaRaises(y_proba, pred)
            THEN [NothingStored EXCEPT !.raised = "ValidationError"]
            ELSE [raised |-> "none", tables |-> <<ds.rows>>,
                  predictions |-> Series(pred.items, ds),
                  probas |-> IF y_proba.given THEN Series(y_proba.argmax, ds) ELSE <<>>,
                  has_pred |-> TRUE, has_proba |-> y_proba.given]

\* line 78 with the index of train alone rewritten
RewriteTrainOnly(train, test) ==
    IF CommonIndex(train, test)
    THEN [train |-> PrefixIndex("train", train), test |-> test, rewritten |-> TRUE]
    ELSE [train |-> train, test |-> test, rewritten |-> FALSE]

\* lines 76-83: role prefixes on both index spaces when they have a label in common
RewriteIndexes(train, test) ==
    IF CommonIndex(train, test)
    THEN [train |-> PrefixIndex("train", train), test |-> PrefixIndex("test", test),
          rewritten |-> TRUE]
    ELSE [train |-> train, test |-> test, rewritten |-> FALSE]

\* _DummyModel.__init__: the error raised ("none" when constructed), the model,
\* and the two datasets as the constructor leaves them
DummyModelInit(test, y_proba_test, y_pred_test, train, y_pred_train, y_proba_train, validate_data_on_predict, model_classes) ==
    LET ds == RewriteIndexes(train, test)
        tr == RoleStored(ds.train, y_pred_train, y_proba_train, model_classes)
        te == RoleStored(ds.test, y_pred_test, y_proba_test, model_classes)
    IN IF tr.raised # "none"
       THEN [raised |-> tr.raised, adapter |-> NoAdapter, train |-> ds.train, test |-> ds.test]
       ELSE IF te.raised # "none"
       THEN [raised |-> te.raised, adapter |-> NoAdapter, train |-> ds.train, test |-> ds.test]
       ELSE [raised |-> "none",
             adapter |-> [built |-> TRUE, model_classes |-> model_classes,
                          rewritten |-> ds.rewritten,
                          feature_df_list |-> tr.tables \o te.tables,
                          predictions |-> tr.predictions \o te.predictions,
                          probas |-> tr.probas \o te.probas,
                          has_predict |-> tr.has_pred \/ te.has_pred,
                          has_predict_proba |-> tr.has_proba \/ te.has_proba,
                          validate_data_on_predict |-> validate_data_on_predict],
             train |-> ds.train, test |-> ds.test]

\* before _DummyModel is built, and before it is asked anything
NoModel ==
    [pc |-> "idle", args |-> NoArgs, raised |-> "none", adapter |-> NoAdapter,
     train |-> NoData, test |-> NoData]
NoCall ==
    [method |-> "", data |-> <<>>, validation |-> "", raised |-> "none", returned |-> <<>>]

\* line 126: data.sample(min(100, len(data)))
SampleSize == 100

\* the sets of d positions among 1..n
RECURSIVE Positions(_, _)
Positions(n, d) ==
    IF d = 0 THEN {{}}
    ELSE {D \cup {i} : D \in Positions(n, d - 1), i \in 1..n} \ Positions(n, d - 1)

\* the row positions data.sample(k) may keep: every set of k of them
Samples(n) ==
    LET k == IF SampleSize < n THEN SampleSize ELSE n
    IN  {(1..n) \ D : D \in Positions(n, n - k)}

\* pieces(lo) \o ... \o pieces(hi)
RECURSIVE Flatten(_, _, _)
Flatten(pieces, lo, hi) ==
    IF lo > hi THEN <<>>
    ELSE IF lo = hi THEN pieces[lo]
    ELSE Flatten(pieces, lo, (lo + hi) \div 2) \o Flatten(pieces, (lo + hi) \div 2 + 1, hi)

TableLabels(table) == {LabelOf(table[i]) : i \in 1..Len(table)}

\* feature_df.loc[label] equals data.loc[label] for the row at position i of data
SameRow(table, data, i) ==
    \E j \in 1..Len(table) :
        LabelOf(table[j]) = LabelOf(data[i]) /\ table[j].x = data[i].x

\* lines 127-134 asking the tables together for the sampled labels
ValidateSampleInUnion(tables, j, data, S) ==
    LET all == Flatten(tables, 1, Len(tables))
    IN IF {LabelOf(data[i]) : i \in S} \subseteq TableLabels(all)
       THEN IF S = {} THEN {"ValueError"}
            ELSE (IF \E i \in S : SameRow(all, data, i) THEN {"seen"} ELSE {})
                 \cup (IF \E i \in S : ~SameRow(all, data, i) THEN {"unseen"} ELSE {})
       ELSE {"unseen"}

\* lines 127-134 for one sample S: the tables are tried in order; the first
\* whose index holds every sampled label is compared on np.unique of 30
\* labels drawn from the sample with replacement, any non-empty part of it
RECURSIVE ValidateSample(_, _, _, _)
ValidateSample(tables, j, data, S) ==
    IF j > Len(tables) THEN {"unseen"}
    ELSE IF {LabelOf(data[i]) : i \in S} \subseteq TableLabels(tables[j])
    THEN IF S = {} THEN {"ValueError"}
         ELSE (IF \E i \in S : SameRow(tables[j], data, i) THEN {"seen"} ELSE {})
              \cup (IF \E i \in S : ~SameRow(tables[j], data, i) THEN {"unseen"} ELSE {})
    ELSE ValidateSample(tables, j + 1, data, S)

\* lines 125-136: what _validate_data may do with data: return ("seen"),
\* raise the unseen-data error, or fail in np.random.choice on no rows
ValidateData(adapter, data) ==
    UNION {ValidateSample(adapter.feature_df_list, 1, data, S) : S \in Samples(Len(data))}

\* series.loc[data.index]: KeyError when a label is missing, else the stored
\* entries of each label in the order asked
Loc(series, data) ==
    LET labels == {series[k].label : k \in 1..Len(series)}
        Of(i) == LET Is(p) == p.label = LabelOf(data[i])
                     hit == SelectSeq(series, Is)
                 IN  [k \in 1..Len(hit) |-> hit[k].value]
    IN IF \E i \in 1..Len(data) : LabelOf(data[i]) \notin labels
       THEN [raised |-> "KeyError", returned |-> <<>>]
       ELSE [raised |-> "none", returned |-> Flatten([i \in 1..Len(data) |-> Of(i)], 1, Len(data))]

\* lines 138-148 never calling _validate_data
LookupUnvalidated(adapter, series, data, validation) == Loc(series, data)

\* lines 138-148: _predict / _predict_proba on data, with the outcome
\* _validate_data had (validation, one of ValidateData) when it is enabled
Lookup(adapter, series, data, validation) ==
    IF adapter.validate_data_on_predict /\ validation = "unseen"
    THEN [raised |-> "DeepchecksValueError", returned |-> <<>>]
    ELSE IF adapter.validate_data_on_predict /\ validation = "ValueError"
    THEN [raised |-> "ValueError", returned |-> <<>>]
    ELSE Loc(series, data)

-----------------------------------------------------------------------------
(* Context.__init__, continued.                                             *)

NoContext ==
    [pc |-> "idle", raised |-> "none", message |-> "",
     train |-> NoData, test |-> NoData, model |-> "none", adapter |-> NoAdapter,
     task_type |-> "none", observed_classes |-> NoClasses,
     model_classes |-> NoClasses,
     calculated_importance |-> FALSE, feature_importance |-> "none",
     importance_type |-> "none", validated_model |-> FALSE,
     \* how often the accessors have run validate_model,
     \* calculate_feature_importance_or_none and the derivation of
     \* observed_classes on this Context
     validate_model_calls |-> 0, importance_calls |-> 0, observed_derivations |-> 0]

\* __init__ left by an exception
Raises(kind, message) ==
    [NoContext EXCEPT !.pc = "raised", !.raised = kind, !.message = message]

\* line 185 with test left out of the condition
NothingGivenIgnoringTest(train, test, model) ==
    ~train.given /\ model = "none"

\* line 185: train is None and test is None and model is None
NothingGiven(train, test, model) ==
    ~train.given /\ ~test.given /\ model = "none"

\* lines 196-211: the first mismatch between train and test, "" when they fit
PairMismatch(train, test) ==
    IF ~(Truthy(train) /\ Truthy(test)) THEN ""
    ELSE IF HasLabel(test) /\ HasLabel(train) /\ ~DatasetsShareLabel(train, test)
         THEN MsgLabel
    ELSE IF ~DatasetsShareFeatures(train, test) THEN MsgFeatures
    ELSE IF ~DatasetsShareCategoricalFeatures(train, test) THEN MsgCategorical
    ELSE IF ~DatasetsShareIndex(train, test) THEN MsgIndex
    ELSE IF ~DatasetsShareDate(train, test) THEN MsgDate
    ELSE ""

\* line 212: test and not train
OnlyTest(train, test) == Truthy(test) /\ ~Truthy(train)

\* line 221: model_classes and len(model_classes) == 0
ReceivedEmpty(model_classes) ==
    ClassesTruthy(model_classes) /\ Len(model_classes.items) = 0

\* line 223 comparing with the strictly increasing arrangement instead
ReceivedNotStrictlySorted(model_classes) ==
    /\ ClassesTruthy(model_classes)
    /\ \E i \in 1..(Len(model_classes.items) - 1) :
          model_classes.items[i] >= model_classes.items[i + 1]

\* line 223: model_classes and sorted(model_classes) != model_classes
ReceivedUnsorted(model_classes) ==
    ClassesTruthy(model_classes) /\ PySorted(model_classes.items) # model_classes.items

\* lines 229-230: the explicit class list, else the one the model declares
ResolvedClasses(model, model_classes) ==
    IF ~model_classes.given THEN InferClassesFromModel(model) ELSE model_classes

\* model.predict(dataset.features_columns) of an estimator passed in: one
\* class per row
EstimatorPredicts(ds) == [i \in 1..Len(ds.rows) |-> 1]

\* model.predict(dataset.features_columns) on a static-prediction model:
\* AttributeError when it has no predict (lines 119-120), else _predict
\* (lines 138-142).  The rows are a whole dataset of the Context: its
\* features are one of the tables (line 97) and, after lines 76-80, no label
\* of it is in the other table, so _validate_data has a single outcome here.
PredictOn(adapter, ds) ==
    IF ~adapter.has_predict
    THEN [raised |-> "AttributeError", returned |-> <<>>]
    ELSE LET outcomes == IF adapter.validate_data_on_predict
                         THEN ValidateData(adapter, ds.rows)
                         ELSE {"skipped"}
             validation == IF "unseen" \in outcomes THEN "unseen"
                           ELSE IF "ValueError" \in outcomes THEN "ValueError"
                           ELSE "seen"
         IN Lookup(adapter, adapter.predictions, ds.rows, validation)

\* the label column of a dataset followed by what model.predict returned on
\* its features, or the error model.predict raised
Appended(own, got) ==
    [raised |-> got.raised,
     values |-> IF got.raised = "none" THEN own \o got.returned ELSE <<>>]

\* the labels one dataset contributes to get_all_labels: its label column,
\* then the predictions supplied for it or else the model's; the error of
\* model.predict when it raises
LabelsOfRole(model, adapter, ds, y_pred) ==
    LET own == IF HasLabel(ds) THEN ds.labels ELSE <<>>
    IN IF ~Truthy(ds) THEN [raised |-> "none", values |-> <<>>]
       ELSE IF y_pred.given THEN [raised |-> "none", values |-> own \o y_pred.items]
       ELSE IF model \in {"estimator", "classifier"}
       THEN [raised |-> "none", values |-> own \o EstimatorPredicts(ds)]
       ELSE IF model = "dummy" THEN Appended(own, PredictOn(adapter, ds))
       ELSE [raised |-> "none", values |-> own]

\* the contribution of train followed by that of test, or the first error
\* raised on the way
Gathered(tr, te, categorical) ==
    IF tr.raised # "none" THEN [raised |-> tr.raised, values |-> <<>>, categorical |-> categorical]
    ELSE IF te.raised # "none" THEN [raised |-> te.raised, values |-> <<>>, categorical |-> categorical]
    ELSE [raised |-> "none", values |-> tr.values \o te.values, categorical |-> categorical]

\* get_all_labels(model, train, test, y_pred_train, y_pred_test): the label
\* values and whether they count as categorical, or the error raised while
\* the model predicted on train, then on test
GetAllLabels(model, adapter, train, test, y_pred_train, y_pred_test) ==
    Gathered(LabelsOfRole(model, adapter, train, y_pred_train),
             LabelsOfRole(model, adapter, test, y_pred_test),
             /\ (Truthy(train) /\ HasLabel(train)) => train.categorical
             /\ (Truthy(test) /\ HasLabel(test)) => test.categorical)

\* sorted(labels.dropna().unique().tolist())
SortedUnique(values) ==
    LET S == Range(values) \ {NullLabel}
        F[T \in SUBSET S] ==
            IF T = {} THEN <<>>
            ELSE LET m == CHOOSE x \in T : \A y \in T : x <= y
                 IN  <<m>> \o F[T \ {m}]
    IN  F[S]

\* infer_task_type_by_class_number
InferTaskTypeByClassNumber(num_classes) ==
    IF num_classes = 2 THEN "binary" ELSE "multiclass"

\* infer_task_type_by_labels
InferTaskTypeByLabels(labels) ==
    IF Range(labels.values) \ {NullLabel} # {} /\ labels.categorical
    THEN InferTaskTypeByClassNumber(Cardinality(Range(labels.values) \ {NullLabel}))
    ELSE "regression"

\* lines 231-238 taking the class list before the declared label type
TaskTypeClassesFirst(train, test, model, y_pred_train, y_pred_test, model_classes) ==
    IF ClassesTruthy(model_classes)
    THEN InferTaskTypeByClassNumber(Len(model_classes.items))
    ELSE IF Truthy(train) /\ train.label_type # "none" THEN train.label_type
    ELSE InferTaskTypeByLabels(
            GetAllLabels(model, NoAdapter, train, test, y_pred_train, y_pred_test))

\* lines 231-238: the task type, from the declared label type, else from the
\* size of the resolved class list, else from the labels
TaskTypeAtInit(train, test, model, y_pred_train, y_pred_test, model_classes) ==
    IF Truthy(train) /\ train.label_type # "none" THEN train.label_type
    ELSE IF ClassesTruthy(model_classes)
    THEN InferTaskTypeByClassNumber(Len(model_classes.items))
    ELSE InferTaskTypeByLabels(
            GetAllLabels(model, NoAdapter, train, test, y_pred_train, y_pred_test))

\* lines 242-244: no model object and some prediction or probability array
BuildsAdapter(a) ==
    /\ a.model = "none"
    /\ \/ a.y_pred_train.given \/ a.y_pred_test.given
       \/ a.y_proba_train.given \/ a.y_proba_test.given

\* lines 240-248: observed_classes as the constructor leaves it
ObservedAtInit(a, model_classes) ==
    IF BuildsAdapter(a) /\ ~a.y_pred_train.given /\ ~model_classes.given
    THEN Classes(SortedUnique(
            GetAllLabels(a.model, NoAdapter, a.train, a.test,
                         a.y_pred_train, a.y_pred_test).values))
    ELSE NoClasses

\* x or y on two class lists
PyOr(x, y) == IF ClassesTruthy(x) THEN x ELSE y

MsgAdapter == "_DummyModel.__init__ raised"

\* line 215 asking for a passed importance alone
CalculatedWhenPassed(feature_importance, model) == feature_importance # "none"

\* line 215: _calculated_importance, set before the static-prediction model
\* takes the place of model
CalculatedAtInit(feature_importance, model) ==
    feature_importance # "none" \/ model = "none"

\* lines 229-267: inference, the static-prediction model and the fields
Constructed(a) ==
    LET model_classes == ResolvedClasses(a.model, a.model_classes)
        task_type == TaskTypeAtInit(a.train, a.test, a.model, a.y_pred_train,
                                    a.y_pred_test, model_classes)
        observed_classes == ObservedAtInit(a, model_classes)
        built == DummyModelInit(a.test, a.y_proba_test, a.y_pred_test, a.train,
                             a.y_pred_train, a.y_proba_train, TRUE,
                             PyOr(model_classes, observed_classes))
    IN IF BuildsAdapter(a) /\ built.raised # "none"
       THEN Raises(built.raised, MsgAdapter)
       ELSE [NoContext EXCEPT
                !.pc = "constructed",
                !.train = IF BuildsAdapter(a) THEN built.train ELSE a.train,
                !.test = IF BuildsAdapter(a) THEN built.test ELSE a.test,
                !.model = IF BuildsAdapter(a) THEN "dummy" ELSE a.model,
                !.adapter = IF BuildsAdapter(a) THEN built.adapter ELSE NoAdapter,
                !.task_type = task_type,
                !.observed_classes = observed_classes,
                !.model_classes = model_classes,
                !.calculated_importance = CalculatedAtInit(a.feature_importance, a.model),
                !.feature_importance = a.feature_importance]

\* Context.__init__, in the order of its statements
ContextInit(a) ==
    IF NothingGiven(a.train, a.test, a.model)
    THEN Raises("DeepchecksValueError", MsgNothing)
    ELSE IF PairMismatch(a.train, a.test) # ""
    THEN Raises("DatasetValidationError", PairMismatch(a.train, a.test))
    ELSE IF OnlyTest(a.train, a.test)
    THEN Raises("DatasetValidationError", MsgOnlyTest)
    ELSE IF a.model # "none" /\ ModelTypeValidationRaises(a.model)
    THEN Raises("ModelValidationError", MsgNotModel)
    ELSE IF a.feature_importance # "none" /\ ~a.train.given
    THEN Raises("AttributeError", MsgNoFeatures)
    ELSE IF a.feature_importance # "none"
            /\ ValidateFeatureImportanceRaises(a.feature_importance)
    THEN Raises("DeepchecksValueError", MsgImportance)
    ELSE IF ReceivedEmpty(a.model_classes)
    THEN Raises("DeepchecksValueError", MsgEmpty)
    ELSE IF ReceivedUnsorted(a.model_classes)
    THEN Raises("DeepchecksValueError", MsgUnsorted)
    ELSE Constructed(a)

-----------------------------------------------------------------------------
(* The accessors of Context (context.py lines 268-377).  Each takes the     *)
(* Context c and gives the Context it leaves and what the caller gets.      *)

\* what a caller gets: a class list (None included), a name, or an exception
ReturnsClasses(classes) == [raised |-> "none", kind |-> "classes", classes |-> classes, text |-> ""]
ReturnsText(text) == [raised |-> "none", kind |-> "text", classes |-> NoClasses, text |-> text]
Throws(kind) == [raised |-> kind, kind |-> "exception", classes |-> NoClasses, text |-> ""]
NoResult == [raised |-> "none", kind |-> "nothing", classes |-> NoClasses, text |-> ""]

IsClassification(task_type) == task_type \in {"binary", "multiclass"}

\* validate_model(train, model): the model must be able to predict on the
\* first rows of train
ValidateModelRaises(train, model, adapter) ==
    \/ model = "unfit"
    \/ /\ model = "dummy"
       /\ \/ ~adapter.has_predict
          \/ \A k \in 1..Len(adapter.predictions) :
                adapter.predictions[k].label # LabelOf(train.rows[1])

\* lines 272-281 without the _validated_model flag
ModelRevalidating(c) ==
    IF c.model = "none"
    THEN [ctx |-> c, out |-> Throws("DeepchecksNotSupportedError")]
    ELSE IF Truthy(c.train)
    THEN LET c1 == [c EXCEPT !.validate_model_calls = @ + 1]
         IN IF ValidateModelRaises(c.train, c.model, c.adapter)
            THEN [ctx |-> c1, out |-> Throws("ModelValidationError")]
            ELSE [ctx |-> [c1 EXCEPT !.validated_model = TRUE],
                  out |-> ReturnsText(c.model)]
    ELSE [ctx |-> [c EXCEPT !.validated_model = TRUE], out |-> ReturnsText(c.model)]

\* lines 272-281: Context.model
Model(c) ==
    IF c.model = "none"
    THEN [ctx |-> c, out |-> Throws("DeepchecksNotSupportedError")]
    ELSE IF ~c.validated_model
    THEN IF Truthy(c.train)
         THEN LET c1 == [c EXCEPT !.validate_model_calls = @ + 1]
              IN IF ValidateModelRaises(c.train, c.model, c.adapter)
                 THEN [ctx |-> c1, out |-> Throws("ModelValidationError")]
                 ELSE [ctx |-> [c1 EXCEPT !.validated_model = TRUE],
                       out |-> ReturnsText(c.model)]
         ELSE [ctx |-> [c EXCEPT !.validated_model = TRUE], out |-> ReturnsText(c.model)]
    ELSE [ctx |-> c, out |-> ReturnsText(c.model)]

\* lines 301-304: Context.model_name, the class name of the validated model
ModelName(c) ==
    LET m == Model(c)
    IN IF m.out.raised # "none" THEN m
       ELSE [ctx |-> m.ctx,
             out |-> ReturnsText(CASE c.model = "dummy" -> "_DummyModel"
                                   [] c.model = "estimator" -> "Estimator"
                                   [] c.model = "classifier" -> "Classifier"
                                   [] OTHER -> c.model)]

\* lines 297-299 once get_all_labels has answered: its error, leaving the
\* cache as it was, or the sorted distinct labels, cached and returned
Derived(c, labels) ==
    IF labels.raised # "none"
    THEN [ctx |-> [c EXCEPT !.observed_derivations = @ + 1], out |-> Throws(labels.raised)]
    ELSE [ctx |-> [c EXCEPT !.observed_derivations = @ + 1,
                            !.observed_classes = Classes(SortedUnique(labels.values))],
          out |-> ReturnsClasses(Classes(SortedUnique(labels.values)))]

\* lines 292-299: Context.observed_classes
ObservedClasses(c) ==
    IF ~c.observed_classes.given /\ IsClassification(c.task_type)
    THEN Derived(c, GetAllLabels(c.model, c.adapter, c.train, c.test, NoArray, NoArray))
    ELSE [ctx |-> c, out |-> ReturnsClasses(c.observed_classes)]

\* lines 283-290: Context.model_classes
ModelClasses(c) ==
    IF ~c.model_classes.given /\ IsClassification(c.task_type)
    THEN ObservedClasses(c)
    ELSE [ctx |-> c, out |-> ReturnsClasses(c.model_classes)]

\* lines 306-309: Context.task_type
TaskType(c) == [ctx |-> c, out |-> ReturnsText(c.task_type)]

\* calculate_feature_importance_or_none: the importance and its type, or
\* (None, None) when the model cannot be evaluated
CalculateFeatureImportanceOrNone(model) ==
    IF model \in {"estimator", "classifier"}
    THEN [importance |-> "computed", type |-> "permutation_importance"]
    ELSE [importance |-> "none", type |-> "none"]

\* lines 311-328: Context.feature_importance
FeatureImportance(c) ==
    IF ~c.calculated_importance
    THEN IF c.model # "none" /\ (Truthy(c.train) \/ Truthy(c.test))
         THEN LET mc == ModelClasses(c)
                  fi == CalculateFeatureImportanceOrNone(c.model)
                  c1 == [mc.ctx EXCEPT !.importance_calls = @ + 1,
                                       !.feature_importance = fi.importance,
                                       !.importance_type = fi.type,
                                       !.calculated_importance = TRUE]
              IN IF mc.out.raised # "none" THEN mc
                 ELSE [ctx |-> c1, out |-> ReturnsText(c1.feature_importance)]
         ELSE [ctx |-> [c EXCEPT !.feature_importance = "none",
                                 !.calculated_importance = TRUE],
               out |-> ReturnsText("none")]
    ELSE [ctx |-> c, out |-> ReturnsText(c.feature_importance)]

\* lines 335-342: Context.feature_importance_type.  "if self.feature_importance"
\* asks a pandas Series of several features for its truth value, which
\* raises ValueError; None is falsy.
FeatureImportanceType(c) ==
    LET fi == FeatureImportance(c)
    IN IF fi.out.raised # "none" THEN fi
       ELSE IF fi.out.text = "none" THEN [ctx |-> fi.ctx, out |-> ReturnsText("none")]
       ELSE [ctx |-> fi.ctx, out |-> Throws("ValueError")]

\* the train property of the base class
Train(c) ==
    IF ~c.train.given THEN Throws("DeepchecksNotSupportedError") ELSE NoResult

\* lines 348-351 asking the task type alone
AssertClassificationAnyTrain(c) ==
    IF c.task_type = "regression"
    THEN [ctx |-> c, out |-> Throws("ModelValidationError")]
    ELSE [ctx |-> c, out |-> NoResult]

\* lines 348-351: Context.assert_classification_task
AssertClassificationTask(c) ==
    IF c.task_type = "regression"
    THEN IF Train(c).raised # "none" THEN [ctx |-> c, out |-> Train(c)]
         ELSE IF HasLabel(c.train)
         THEN [ctx |-> c, out |-> Throws("ModelValidationError")]
         ELSE [ctx |-> c, out |-> NoResult]
    ELSE [ctx |-> c, out |-> NoResult]

\* lines 353-356: Context.assert_regression_task
AssertRegressionTask(c) ==
    IF c.task_type # "regression"
    THEN IF Train(c).raised # "none" THEN [ctx |-> c, out |-> Train(c)]
         ELSE IF HasLabel(c.train)
         THEN [ctx |-> c, out |-> Throws("ModelValidationError")]
         ELSE [ctx |-> c, out |-> NoResult]
    ELSE [ctx |-> c, out |-> NoResult]

\* lines 358-377: Context.get_scorers with the default scorers of the task
GetScorers(c) ==
    LET m == Model(c)
    IN IF m.out.raised # "none" THEN m
       ELSE IF Train(m.ctx).raised # "none" THEN [ctx |-> m.ctx, out |-> Train(m.ctx)]
       ELSE LET mc == ModelClasses(m.ctx)
                oc == ObservedClasses(mc.ctx)
            IN IF mc.out.raised # "none" THEN mc
               ELSE IF oc.out.raised # "none" THEN oc
               ELSE [ctx |-> oc.ctx, out |-> ReturnsText(c.task_type)]

\* lines 379-402: Context.get_single_scorer: the first of the default scorers
\* of the task, initialized with the same model, train and class lists
GetSingleScorer(c) ==
    LET m == Model(c)
    IN IF m.out.raised # "none" THEN m
       ELSE IF Train(m.ctx).raised # "none" THEN [ctx |-> m.ctx, out |-> Train(m.ctx)]
       ELSE LET mc == ModelClasses(m.ctx)
                oc == ObservedClasses(mc.ctx)
            IN IF mc.out.raised # "none" THEN mc
               ELSE IF oc.out.raised # "none" THEN oc
               ELSE [ctx |-> oc.ctx, out |-> ReturnsText(c.task_type)]

\* the arguments drawn.  Column names other than the label's are only ever
\* compared between the two datasets, so train keeps the first of them.
TrainSets ==
    {NoData} \cup {TabularData(l, "a", "a", "a", "a") : l \in {""} \cup ColumnNames}
TestSets ==
    {NoData} \cup
    {TabularData(l, f, c, i, d) :
        l \in {""} \cup ColumnNames, f \in ColumnNames, c \in ColumnNames,
        i \in ColumnNames, d \in ColumnNames}
ClassLists ==
    {NoClasses} \cup {Classes(xs) : xs \in SeqsOf(ClassValues, 0, MaxClasses)}

LengthLists == SeqsOf(0..MaxLen, 1, MaxSamples)

-----------------------------------------------------------------------------
(* State machines.                                                         *)

\* the mapper has been handed its input and has not run yet
Pending == [raised |-> "pending", value |-> 0]

IdleMapper == m_lengths = <<>> /\ m_flat = 0 /\ m_out = [raised |-> "idle", value |-> 0]
IdleScanner == n_show_top = 0 /\ dataset = NoDataset /\ scan = NoOutcome
IdleContext == ctx_args = NoArgs /\ ctx = NoContext
IdleAdapter == dm = NoModel /\ dm_call = NoCall

(* ---- the index mapper as a pure function ---- *)

\* a list of per-sample lengths and a flat index (one past the end included)
InitMapper ==
    /\ m_lengths \in LengthLists
    /\ m_flat \in 0..SumSeq(m_lengths)
    /\ m_out = Pending
    /\ IdleScanner
    /\ IdleContext
    /\ IdleAdapter

MapIndex ==
    /\ m_out = Pending
    /\ m_out' = SampleIndexFromFlattenIndex(Cumsum(m_lengths), m_flat)
    /\ UNCHANGED <<m_lengths, m_flat, n_show_top, dataset, scan, ctx_args, ctx, dm, dm_call>>

NextMapper == MapIndex

SpecMapper == InitMapper /\ [][NextMapper]_vars

(* ---- the outlier check ---- *)

\* TextPropertyOutliers.__init__ (lines 88-98)
InitOutliers ==
    /\ n_show_top \in 0..MaxShow
    /\ dataset = NoDataset
    /\ scan = NoOutcome
    /\ IdleMapper
    /\ IdleContext
    /\ IdleAdapter

\* run_logic called with the dataset of n samples and property table t
RunLogicOn(n, t) ==
    /\ dataset' = Dataset(n, t)
    /\ scan' = RunLogicOutcome(Dataset(n, t), n_show_top)
    /\ UNCHANGED <<n_show_top, m_lengths, m_flat, m_out, ctx_args, ctx, dm, dm_call>>

\* run_logic called with a dataset: one scalar column, one list column, one
\* fixed column, or a column together with a companion
RunLogic ==
    /\ scan.pc = "idle"
    /\ \/ \E n \in 1..MaxFlat : \E c \in ScalarColumns(n) : RunLogicOn(n, Single(c))
       \/ \E n \in 1..MaxSamples : \E lens \in LengthVectors(n) :
             \E flat \in [1..SumSeq(lens) -> ScalarValues] :
                RunLogicOn(n, Single(Split(flat, lens)))
       \/ \E n \in 1..MaxSize : \E c \in OddColumns(n) \cup ExampleColumns(n) :
             RunLogicOn(n, Single(c))
       \/ \E n \in 1..MaxSize : \E c \in PairedColumns(n) : \E f \in CompanionColumns(n) :
             \E first \in BOOLEAN : RunLogicOn(n, Paired(c, f, first))

NextOutliers == RunLogic

SpecOutliers == InitOutliers /\ [][NextOutliers]_vars

(* ---- the tabular Context ---- *)

InitContext ==
    /\ IdleContext
    /\ IdleMapper
    /\ IdleScanner
    /\ IdleAdapter

\* Context(train, test, model, feature_importance, model_classes)
Construct ==
    /\ ctx.pc = "idle"
    /\ \E train \in TrainSets : \E test \in TestSets : \E model \in Models :
          \E feature_importance \in Importances : \E model_classes \in ClassLists :
             LET a == [NoArgs EXCEPT !.train = train, !.test = test, !.model = model,
                                     !.feature_importance = feature_importance,
                                     !.model_classes = model_classes]
             IN  ctx_args' = a /\ ctx' = ContextInit(a)
    /\ UNCHANGED <<m_lengths, m_flat, m_out, n_show_top, dataset, scan, dm, dm_call>>

NextContext == Construct

SpecContext == InitContext /\ [][NextContext]_vars

(* ---- a Context and the accessors called on it ---- *)

\* the runs of validate_model, and of the derivation of observed_classes,
\* counted on one Context; further runs leave the count at this number
MaxCalls == 2

Accessors ==
    {"model", "model_name", "model_classes", "observed_classes", "task_type",
     "feature_importance", "feature_importance_type", "assert_classification_task",
     "assert_regression_task", "get_scorers", "get_single_scorer"}

\* the accessor of that name called on Context c
Call(name, c) ==
    CASE name = "model" -> Model(c)
      [] name = "model_classes" -> ModelClasses(c)
      [] name = "observed_classes" -> ObservedClasses(c)
      [] name = "task_type" -> TaskType(c)
      [] name = "feature_importance" -> FeatureImportance(c)
      [] name = "feature_importance_type" -> FeatureImportanceType(c)
      [] name = "assert_classification_task" -> AssertClassificationTask(c)
      [] name = "assert_regression_task" -> AssertRegressionTask(c)
      [] name = "get_scorers" -> GetScorers(c)
      [] name = "get_single_scorer" -> GetSingleScorer(c)
      [] name = "model_name" -> ModelName(c)

\* the datasets, models and arrays a session is built from: three rows each
SessionRows(first) == [i \in 1..3 |-> DataRow(first + i - 1, i)]
SessionLabels == {<<0, 1, 0>>, <<2, NullLabel, 0>>, <<0, 1, 2>>}
SessionTrains ==
    {NoData}
    \cup {WithRows(TabularData("", "a", "a", "a", "a"), t, TRUE, <<>>, SessionRows(0)) :
            t \in {"none", "binary", "multiclass", "regression"}}
    \cup {WithRows(TabularData("a", "a", "a", "a", "a"), t, TRUE, l, SessionRows(0)) :
            t \in {"none", "binary", "multiclass", "regression"}, l \in SessionLabels}
    \cup {WithRows(TabularData("a", "a", "a", "a", "a"), "none", FALSE, <<0, 1, 2>>,
                   SessionRows(0))}
SessionTests ==
    {NoData,
     WithRows(TabularData("a", "a", "a", "a", "a"), "none", TRUE, <<1, 2, 1>>, SessionRows(0)),
     WithRows(TabularData("", "a", "a", "a", "a"), "none", TRUE, <<>>, SessionRows(3))}
SessionModels == {"none", "estimator", "classifier", "unfit"}
SessionPreds == {NoArray, Array(<<0, 1, 1>>)}
SessionProbas == {NoProba, Proba(2, <<0, 1, 1>>)}
SessionClasses == {NoClasses, Classes(<<>>), Classes(<<0, 1>>), Classes(<<0, 1, 2>>)}

InitAccess ==
    /\ IdleContext
    /\ IdleMapper
    /\ IdleScanner
    /\ IdleAdapter

\* Context(...) with a real model, or with static predictions in its place
ConstructSession ==
    /\ ctx.pc = "idle"
    /\ \E train \in SessionTrains : \E test \in SessionTests :
          \E model \in SessionModels : \E fi \in {"none", "valid"} :
          \E model_classes \in SessionClasses :
          \E pt \in SessionPreds : \E pe \in SessionPreds :
          \E qt \in SessionProbas : \E qe \in SessionProbas :
             LET a == [train |-> train, test |-> test, model |-> model,
                       feature_importance |-> fi,
                       y_pred_train |-> pt, y_pred_test |-> pe,
                       y_proba_train |-> qt, y_proba_test |-> qe,
                       model_classes |-> model_classes]
             IN /\ model # "none" => (pt = NoArray /\ pe = NoArray /\ qt = NoProba /\ qe = NoProba)
                /\ ctx_args' = a
                /\ ctx' = ContextInit(a)
    /\ UNCHANGED <<m_lengths, m_flat, m_out, n_show_top, dataset, scan, dm, dm_call>>

\* one accessor called on the constructed Context
Access(name) ==
    /\ ctx.pc = "constructed"
    /\ ctx' = [Call(name, ctx).ctx EXCEPT
                  !.validate_model_calls = IF @ > MaxCalls THEN MaxCalls ELSE @,
                  !.observed_derivations = IF @ > MaxCalls THEN MaxCalls ELSE @]
    /\ UNCHANGED <<ctx_args, m_lengths, m_flat, m_out, n_show_top, dataset, scan, dm, dm_call>>

NextAccess ==
    \/ ConstructSession
    \/ \E name \in Accessors : Access(name)

SpecAccess == InitAccess /\ [][NextAccess]_vars

(* ---- a _DummyModel built directly and asked to predict ---- *)

\* a dataset of three rows whose index labels start at first, and one of
\* SampleSize rows
SmallData(first) ==
    WithRows(TabularData("a", "a", "a", "a", "a"), "none", TRUE, <<0, 1, 0>>,
             SessionRows(first))
BigData ==
    WithRows(TabularData("a", "a", "a", "a", "a"), "none", TRUE,
             [i \in 1..SampleSize |-> 0], [i \in 1..SampleSize |-> DataRow(i - 1, i)])

AdapterTrains == {NoData, SmallData(0), BigData}
AdapterTests == {NoData, SmallData(0), SmallData(1), SmallData(3)}

\* predictions and probabilities with one entry per row of ds: class 0 or 1
\* for train, class 2 for test
PredsFor(ds, role) ==
    Array([i \in 1..Len(ds.rows) |-> IF role = "train" THEN i % 2 ELSE 2])
ProbasFor(ds) == Proba(2, [i \in 1..Len(ds.rows) |-> i % 2])

\* a row whose index label is in no dataset
Fabricated == DataRow(-1, 0)

\* the feature rows a caller may ask about: those of train or of test as the
\* constructor left them, with a fabricated row added, with the content of a
\* row changed, a fabricated row alone, or no row at all; a changed row
\* alone, a part of test, and rows of train and of test together
Queries(d) ==
    {d.train.rows, d.test.rows, <<>>, <<Fabricated>>,
     d.train.rows \o <<Fabricated>>, d.test.rows \o <<Fabricated>>}
    \cup (IF d.train.given
          THEN {[d.train.rows EXCEPT ![1].x = 0], <<[d.train.rows[1] EXCEPT !.x = 0]>>}
          ELSE {})
    \cup (IF d.test.given THEN {SubSeq(d.test.rows, 2, 3)} ELSE {})
    \cup (IF d.train.given /\ d.test.given
          THEN {<<d.train.rows[1], d.test.rows[1]>>, d.train.rows \o <<d.test.rows[1]>>}
          ELSE {})

InitAdapter ==
    /\ IdleAdapter
    /\ IdleContext
    /\ IdleMapper
    /\ IdleScanner

\* _DummyModel(test, y_proba_test, y_pred_test, train, y_pred_train,
\*             y_proba_train, validate_data_on_predict, model_classes)
BuildAdapter ==
    /\ dm.pc = "idle"
    /\ \E train \in AdapterTrains : \E test \in AdapterTests :
          \E pt \in {NoArray, PredsFor(train, "train")} :
          \E pe \in {NoArray, PredsFor(test, "test")} :
          \E qt \in {NoProba, ProbasFor(train)} : \E qe \in {NoProba, ProbasFor(test)} :
          \E validate \in BOOLEAN : \E model_classes \in {NoClasses, Classes(<<0, 1>>)} :
             LET built == DummyModelInit(test, qe, pe, train, pt, qt, validate, model_classes)
             IN dm' = [pc |-> IF built.raised = "none" THEN "built" ELSE "raised",
                       args |-> [NoArgs EXCEPT !.train = train, !.test = test,
                                               !.y_pred_train = pt, !.y_pred_test = pe,
                                               !.y_proba_train = qt, !.y_proba_test = qe,
                                               !.model_classes = model_classes],
                       raised |-> built.raised, adapter |-> built.adapter,
                       train |-> built.train, test |-> built.test]
    /\ UNCHANGED <<dm_call, ctx_args, ctx, m_lengths, m_flat, m_out, n_show_top, dataset, scan>>

\* model.predict(data) or model.predict_proba(data); the attribute exists
\* only when predictions (probabilities) are stored (lines 119-123)
Ask(method) ==
    /\ dm.pc = "built"
    /\ dm_call = NoCall
    /\ \E data \in Queries(dm) :
          IF (method = "predict" /\ ~dm.adapter.has_predict)
             \/ (method = "predict_proba" /\ ~dm.adapter.has_predict_proba)
          THEN dm_call' = [method |-> method, data |-> data, validation |-> "",
                           raised |-> "AttributeError", returned |-> <<>>]
          ELSE \E validation \in (IF dm.adapter.validate_data_on_predict
                                  THEN ValidateData(dm.adapter, data)
                                  ELSE {"skipped"}) :
                  LET series == IF method = "predict" THEN dm.adapter.predictions
                                ELSE dm.adapter.probas
                      got == Lookup(dm.adapter, series, data, validation)
                  IN dm_call' = [method |-> method, data |-> data,
                                 validation |-> validation,
                                 raised |-> got.raised, returned |-> got.returned]
    /\ UNCHANGED <<dm, ctx_args, ctx, m_lengths, m_flat, m_out, n_show_top, dataset, scan>>

Predict == Ask("predict")
PredictProba == Ask("predict_proba")

NextAdapter == BuildAdapter \/ Predict \/ PredictProba

SpecAdapter == InitAdapter /\ [][NextAdapter]_vars

-----------------------------------------------------------------------------
(* Properties of the index mapper and of the outlier check.                *)

\* sum of the first k lengths
PrefixSum(L, k) == SumSeq(SubSeq(L, 1, k))

MapperRan == m_out.raised \in {"none", "IndexError"}

\* flat index f falls into sample j of the concatenation
OwnedBy(L, f, j) == PrefixSum(L, j) <= f /\ f < PrefixSum(L, j + 1)

(* C1: for every list of lengths L (zero lengths included) and every flat  *)
(* index 0 <= f < sum(L), the mapper applied to cumsum(L) and f returns    *)
(* the unique sample index i with sum(L[0..i)) <= f < sum(L[0..i]), which  *)
(* is the smallest i whose cumulative sum exceeds f.                       *)
C1_MapperIsLeftInverse ==
    (MapperRan /\ m_flat < SumSeq(m_lengths)) =>
        /\ m_out.raised = "none"
        /\ m_out.value \in 0..(Len(m_lengths) - 1)
        /\ OwnedBy(m_lengths, m_flat, m_out.value)
        /\ \A j \in 0..(Len(m_lengths) - 1) :
              OwnedBy(m_lengths, m_flat, j) => j = m_out.value
        /\ \A j \in 0..(m_out.value - 1) : PrefixSum(m_lengths, j + 1) <= m_flat

\* the last flat index, mapped past a zero-length sample
C1_Witness ==
    /\ m_out.raised = "none"
    /\ m_flat = SumSeq(m_lengths) - 1
    /\ m_out.value > 0
    /\ \E k \in 1..m_out.value : m_lengths[k] = 0

\* the numeric properties run_logic went over, in order
Scanned == NumericProperties(dataset)

\* the values of a column in sample order, then intra-sample order
FlatValues(column) ==
    LET items(x) == IF x.t = "list" THEN x.items ELSE <<x>>
        flat == Concat([i \in 1..Len(column) |-> items(column[i])])
    IN [i \in 1..Len(flat) |-> IF flat[i].t = "none" THEN NaN ELSE Flt(flat[i].v)]

\* the flat positions whose value is above / below a limit given in 1/FixedPoint
StrictlyAbove(arr, limit) ==
    {f \in 0..(Len(arr) - 1) : ~arr[f + 1].nan /\ arr[f + 1].v * FixedPoint > limit}

StrictlyBelow(arr, limit) ==
    {f \in 0..(Len(arr) - 1) : ~arr[f + 1].nan /\ arr[f + 1].v * FixedPoint < limit}

OnLimit(arr, limit) ==
    {f \in 0..(Len(arr) - 1) : ~arr[f + 1].nan /\ arr[f + 1].v * FixedPoint = limit}

(* C2: for every property whose range was estimated as (lower, upper), the *)
(* flat positions flagged as top outliers are exactly those with a value   *)
(* strictly above upper, the bottom outliers exactly those strictly below  *)
(* lower; a value equal to a limit is not flagged.                         *)
C2_FlaggedExactlyOutside ==
    scan.pc = "returned" =>
        \A k \in 1..Len(scan.locals) :
            scan.locals[k].estimated =>
                LET loc == scan.locals[k]
                    arr == FlatValues(Scanned[k].values)
                    flagged == Range(loc.top_outliers) \cup Range(loc.bottom_outliers)
                IN /\ Range(loc.top_outliers) = StrictlyAbove(arr, loc.upper)
                   /\ Range(loc.bottom_outliers) = StrictlyBelow(arr, loc.lower)
                   /\ flagged \cap (OnLimit(arr, loc.upper) \cup OnLimit(arr, loc.lower)) = {}

\* a property with a top outlier, a bottom outlier and a value on the upper limit
C2_Witness ==
    /\ scan.pc = "returned"
    /\ \E k \in 1..Len(scan.locals) :
          /\ scan.locals[k].estimated
          /\ scan.locals[k].top_outliers # <<>>
          /\ scan.locals[k].bottom_outliers # <<>>
          /\ OnLimit(FlatValues(Scanned[k].values), scan.locals[k].upper) # {}

MinInt(S) == CHOOSE x \in S : \A y \in S : x <= y
MaxInt(S) == CHOOSE x \in S : \A y \in S : x >= y

(* C3: for every property with a numeric result, the reported limits are   *)
(* the estimated limits clipped to the observed values:                    *)
(* lower_limit = max(lower, min(values)), upper_limit = min(upper,         *)
(* max(values)), so neither lies outside the observed range.               *)
C3_LimitsClippedToObserved ==
    scan.pc = "returned" =>
        \A k \in 1..Len(scan.locals) :
            scan.locals[k].estimated =>
                LET loc == scan.locals[k]
                    obs == Range(NonNull(FlatValues(Scanned[k].values)))
                    lo == MinInt(obs) * FixedPoint
                    hi == MaxInt(obs) * FixedPoint
                IN /\ scan.result[k].res.lower_limit = Flt(IF loc.lower > lo THEN loc.lower ELSE lo)
                   /\ scan.result[k].res.upper_limit = Flt(IF loc.upper < hi THEN loc.upper ELSE hi)
                   /\ scan.result[k].res.lower_limit.v >= lo
                   /\ scan.result[k].res.upper_limit.v <= hi

\* a column the validator _ensure_property_shape accepts
Clean(column) == EnsurePropertyShape(column, Len(dataset.index)) = "none"

\* too few non-null values for the estimator
Insufficient(column) == Len(NonNull(FlatValues(column))) < MinSamples

\* run_logic over the dataset reduced to one of its properties
ScannedAlone(prop) ==
    RunLogicOutcome([index |-> dataset.index, properties |-> <<prop>>], n_show_top)

(* C4: when the estimator signals insufficient samples for a property,     *)
(* run_logic does not raise: that property's result is the placeholder     *)
(* text, and every other numeric property has the result it has when it is *)
(* scanned alone.                                                          *)
C4_InsufficientIsContained ==
    (scan.pc # "idle" /\ \A k \in 1..Len(Scanned) : Clean(Scanned[k].values)) =>
        /\ scan.pc = "returned"
        /\ Len(scan.result) = Len(Scanned)
        /\ \A k \in 1..Len(Scanned) :
              /\ scan.result[k].name = Scanned[k].name
              /\ IF Insufficient(Scanned[k].values)
                 THEN /\ scan.result[k].res.text = "Not enough non-null samples to calculate outliers."
                      /\ ~scan.locals[k].estimated
                 ELSE /\ scan.result[k].res.text = ""
                      /\ scan.locals[k].estimated
                      /\ scan.result[k] = ScannedAlone(Scanned[k]).result[1]

\* a placeholder for the first property, outliers found for the second
C4_Witness ==
    /\ scan.pc = "returned"
    /\ Len(scan.result) = 2
    /\ scan.result[1].res.text # ""
    /\ scan.result[2].res.text = ""
    /\ scan.result[2].res.indices # <<>>

(* C5: a scan over a property that mixes scalars and lists, holds a        *)
(* non-numeric value or has a wrong count raises DeepchecksProcessError    *)
(* and produces no result.                                                 *)
C5_MalformedRaisesProcessError ==
    (scan.pc # "idle" /\ \E k \in 1..Len(Scanned) : ~Clean(Scanned[k].values)) =>
        scan.raised = "DeepchecksProcessError"

\* how many of the displayed flat indices belong to a group
ShownOf(loc, group) ==
    Cardinality({j \in 1..Len(loc.show_indices) : loc.show_indices[j] \in Range(group)})

(* C6: for every n_show_top >= 0 the display selection of a property holds *)
(* at most n_show_top bottom outliers and at most n_show_top top outliers, *)
(* the bottom ones being the lowest-valued and the top ones the            *)
(* highest-valued of their group.                                          *)
C6_ShowIsBounded ==
    scan.pc = "returned" =>
        \A k \in 1..Len(scan.locals) :
            LET loc == scan.locals[k]
                arr == FlatValues(Scanned[k].values)
                shown == Range(loc.show_indices)
            IN /\ ShownOf(loc, loc.top_outliers) <= n_show_top
               /\ ShownOf(loc, loc.bottom_outliers) <= n_show_top
               /\ \A f \in shown \cap Range(loc.top_outliers) :
                     \A g \in Range(loc.top_outliers) \ shown : arr[g + 1].v <= arr[f + 1].v
               /\ \A f \in shown \cap Range(loc.bottom_outliers) :
                     \A g \in Range(loc.bottom_outliers) \ shown : arr[f + 1].v <= arr[g + 1].v

-----------------------------------------------------------------------------
(* Properties of Context construction.                                     *)

\* __init__ has run, to a Context or to an exception
Attempted == ctx.pc # "idle"

\* no statement before the class list checks (lines 185-220) raised
ReachedClassChecks ==
    ctx.pc = "constructed" \/ ctx.message \in {MsgEmpty, MsgUnsorted, MsgAdapter}

RejectedAsUnsorted == ctx.raised = "DeepchecksValueError" /\ ctx.message = MsgUnsorted

NonDecreasing(xs) == \A i \in 1..(Len(xs) - 1) : xs[i] <= xs[i + 1]
StrictlyIncreasing(xs) == \A i \in 1..(Len(xs) - 1) : xs[i] < xs[i + 1]

\* C7, as stated: an explicitly supplied model_classes list is rejected as
\* unsorted exactly when it is not strictly sorted ascending (an out-of-order
\* pair or a repeated class); a strictly sorted list is accepted.
C7_StrictlySortedOrRejected ==
    (Attempted /\ ctx_args.model_classes.given)
        => /\ ~StrictlyIncreasing(ctx_args.model_classes.items) => ctx.pc = "raised"
           /\ ReachedClassChecks =>
                (RejectedAsUnsorted <=> ~StrictlyIncreasing(ctx_args.model_classes.items))

\* C7, amended: an explicitly supplied model_classes list is rejected as
\* unsorted exactly when some class is greater than its successor; a list in
\* non-decreasing order, repeated classes included, passes the check and is
\* the class list of the constructed Context.
C7_UnsortedRejected ==
    (Attempted /\ ctx_args.model_classes.given)
        => /\ ~NonDecreasing(ctx_args.model_classes.items) => ctx.pc = "raised"
           /\ ReachedClassChecks =>
                (RejectedAsUnsorted <=> ~NonDecreasing(ctx_args.model_classes.items))
           /\ ctx.pc = "constructed" => ctx.model_classes = ctx_args.model_classes

\* a list with a repeated class was supplied and the Context was constructed
C7_Witness ==
    /\ ctx.pc = "constructed"
    /\ ctx_args.model_classes = Classes(<<0, 0, 1>>)
    /\ ctx.model_classes = Classes(<<0, 0, 1>>)

\* C8: construction with model_classes = [] raises the error 'Received empty
\* model_classes'; the empty list is never accepted and carried on.
C8_EmptyClassListRaises ==
    (Attempted /\ ctx_args.model_classes = Classes(<<>>))
        => /\ ctx.pc = "raised"
           /\ ReachedClassChecks =>
                (ctx.raised = "DeepchecksValueError" /\ ctx.message = MsgEmpty)

\* C9: with both train and test given, construction raises the dataset
\* validation error about the label whenever the two differ in label
\* presence or in label, also when exactly one of them has a label.
C9_LabelMismatchRaises ==
    (Attempted /\ ctx_args.train.given /\ ctx_args.test.given
        /\ ctx_args.train.label # ctx_args.test.label)
        => (ctx.raised = "DatasetValidationError" /\ ctx.message = MsgLabel)

\* C10: construction raises DatasetValidationError when only test is given
\* (with or without a model), DeepchecksValueError when nothing is given, and
\* raises neither of these two errors when train is given or only a model is.
C10_RequiredInputs ==
    Attempted =>
        /\ (~ctx_args.train.given /\ ctx_args.test.given)
              => (ctx.raised = "DatasetValidationError" /\ ctx.message = MsgOnlyTest)
        /\ (~ctx_args.train.given /\ ~ctx_args.test.given /\ ctx_args.model = "none")
              => (ctx.raised = "DeepchecksValueError" /\ ctx.message = MsgNothing)
        /\ (ctx_args.train.given \/ (~ctx_args.test.given /\ ctx_args.model # "none"))
              => ctx.message \notin {MsgOnlyTest, MsgNothing}

\* only test was given, without a model, and the constructor raised
C10_Witness ==
    /\ ctx.pc = "raised"
    /\ ~ctx_args.train.given /\ ctx_args.test.given /\ ctx_args.model = "none"
    /\ ctx.raised = "DatasetValidationError"

-----------------------------------------------------------------------------
(* Properties of task type and class list resolution.                      *)

\* the label type the train dataset declares, "none" without one
DeclaredLabelType == IF ctx_args.train.given THEN ctx_args.train.label_type ELSE "none"

\* the class list known at construction: the explicit one, else the model's
KnownClasses == ResolvedClasses(ctx_args.model, ctx_args.model_classes)

\* the non-null label values of the two datasets
LabelValues ==
    (Range(ctx_args.train.labels) \cup Range(ctx_args.test.labels)) \ {NullLabel}

\* the values predicted for the two datasets, supplied or the model's
PredictedValues ==
    Range(ctx_args.y_pred_train.items) \cup Range(ctx_args.y_pred_test.items)
    \cup {ctx.adapter.predictions[k].value : k \in 1..Len(ctx.adapter.predictions)}
    \cup (IF ctx_args.model \in {"estimator", "classifier"} THEN {1} ELSE {})

\* C11: the task type of a constructed Context is the train dataset's
\* declared label type when there is one; otherwise binary for a resolved
\* class list of 2 classes and multiclass for more than 2; otherwise what the
\* observed labels give, regression when there are none.  It holds in every
\* later state as well, so no accessor call changes the task type.
C11_TaskTypePrecedence ==
    ctx.pc = "constructed" =>
        /\ DeclaredLabelType # "none" => ctx.task_type = DeclaredLabelType
        /\ (DeclaredLabelType = "none" /\ Len(KnownClasses.items) = 2)
              => ctx.task_type = "binary"
        /\ (DeclaredLabelType = "none" /\ Len(KnownClasses.items) > 2)
              => ctx.task_type = "multiclass"
        /\ (DeclaredLabelType = "none" /\ Len(KnownClasses.items) = 0)
              => /\ ctx.task_type =
                      InferTaskTypeByLabels(
                          GetAllLabels(ctx_args.model, NoAdapter, ctx_args.train,
                                       ctx_args.test, ctx_args.y_pred_train,
                                       ctx_args.y_pred_test))
                 /\ (LabelValues \cup PredictedValues = {}) => ctx.task_type = "regression"

\* a declared regression label type met an explicit two-class list, and an
\* accessor has derived the observed classes since
C11_Witness ==
    /\ ctx.pc = "constructed"
    /\ DeclaredLabelType = "regression"
    /\ ctx_args.model_classes = Classes(<<0, 1>>)
    /\ ctx.task_type = "regression"
    /\ ctx.validated_model

\* C12: Context.model_classes returns the explicit list whenever one was
\* supplied, the model's classes when none was supplied and the model
\* declares them, and otherwise, for a classification task, the observed
\* classes: strictly ascending, without nulls, covering the labels of train
\* and test and made of labels and predictions only.
C12_ClassListPrecedence ==
    ctx.pc = "constructed" =>
        LET got == ModelClasses(ctx).out
        IN /\ got.raised = "none"
           /\ ctx_args.model_classes.given => got.classes = ctx_args.model_classes
           /\ (~ctx_args.model_classes.given /\ InferClassesFromModel(ctx_args.model).given)
                 => got.classes = InferClassesFromModel(ctx_args.model)
           /\ (~KnownClasses.given /\ IsClassification(ctx.task_type))
                 => /\ got.classes.given
                    /\ StrictlyIncreasing(got.classes.items)
                    /\ NullLabel \notin Range(got.classes.items)
                    /\ LabelValues \subseteq Range(got.classes.items)
                    /\ Range(got.classes.items) \subseteq LabelValues \cup PredictedValues
           /\ (~KnownClasses.given /\ ~IsClassification(ctx.task_type))
                 => ~got.classes.given

-----------------------------------------------------------------------------
(* Properties of the static-prediction model.                              *)

\* predict or predict_proba was called and the model has that method
Asked == dm_call.method # "" /\ dm_call.raised # "AttributeError"

\* some row asked about carries an index label that is in no stored table
AsksFabricated ==
    \E i \in 1..Len(dm_call.data) :
        \A j \in 1..Len(dm.adapter.feature_df_list) :
            LabelOf(dm_call.data[i]) \notin TableLabels(dm.adapter.feature_df_list[j])

\* C13, as stated: a query with a fabricated row index raises the unseen-data
\* error when validate_data_on_predict is enabled and raises nothing when it
\* is disabled.
C13_FabricatedRaisesIffValidating ==
    (Asked /\ AsksFabricated)
        => IF dm.adapter.validate_data_on_predict
           THEN dm_call.raised = "DeepchecksValueError"
           ELSE dm_call.raised = "none"

\* C13, amended: with validation enabled a query of at most SampleSize rows
\* holding a fabricated row index raises the unseen-data error, and a longer
\* one raises it or, when the sample misses the row, the KeyError of the
\* lookup; with validation disabled the unseen-data error is not raised and
\* the lookup raises KeyError.
C13_FabricatedRaises ==
    (Asked /\ AsksFabricated)
        => /\ (dm.adapter.validate_data_on_predict /\ Len(dm_call.data) <= SampleSize)
                 => dm_call.raised = "DeepchecksValueError"
           /\ (dm.adapter.validate_data_on_predict /\ Len(dm_call.data) > SampleSize)
                 => dm_call.raised \in {"DeepchecksValueError", "KeyError"}
           /\ ~dm.adapter.validate_data_on_predict => dm_call.raised = "KeyError"

\* validation was enabled, the query held the rows of train and a fabricated
\* one, and the sample of SampleSize rows left the fabricated one out
C13_Witness ==
    /\ Asked /\ AsksFabricated
    /\ dm.adapter.validate_data_on_predict
    /\ dm_call.data = dm.train.rows \o <<Fabricated>>
    /\ Len(dm_call.data) = SampleSize + 1
    /\ dm_call.raised = "KeyError"

\* the index labels the two datasets were passed with
GivenTrainIndex == IndexSet(dm.args.train)
GivenTestIndex == IndexSet(dm.args.test)
IndexesCollide ==
    dm.args.train.given /\ dm.args.test.given /\ GivenTrainIndex \cap GivenTestIndex # {}

\* the rows of ds with role- in front of every index label
Prefixed(role, ds) ==
    [i \in 1..Len(ds.rows) |->
        [prefix |-> <<role>> \o ds.rows[i].prefix, id |-> ds.rows[i].id, x |-> ds.rows[i].x]]

\* the predictions passed for a role, or the classes of its row maxima
PassedFor(y_pred, y_proba) ==
    IF y_pred.given THEN y_pred.items
    ELSE [i \in 1..Len(y_proba.argmax) |-> dm.args.model_classes.items[y_proba.argmax[i] + 1]]

\* C14: when the index sets of train and test intersect, the constructed
\* model holds both under 'train-<id>' / 'test-<id>' labels, disjoint from
\* each other; when they do not, no label is rewritten; and predict on the
\* feature rows of a dataset for which predictions were passed returns them.
C14_CollidingIndexesPrefixed ==
    dm.pc = "built" =>
        /\ IndexesCollide
              => /\ dm.adapter.rewritten
                 /\ dm.train.rows = Prefixed("train", dm.args.train)
                 /\ dm.test.rows = Prefixed("test", dm.args.test)
                 /\ IndexSet(dm.train) \cap IndexSet(dm.test) = {}
        /\ ~IndexesCollide
              => /\ ~dm.adapter.rewritten
                 /\ dm.train.rows = dm.args.train.rows
                 /\ dm.test.rows = dm.args.test.rows
        /\ (Asked /\ dm_call.method = "predict" /\ dm.train.given
            /\ dm_call.data = dm.train.rows
            /\ (dm.args.y_pred_train.given \/ dm.args.y_proba_train.given))
              => /\ dm_call.raised = "none"
                 /\ dm_call.returned = PassedFor(dm.args.y_pred_train, dm.args.y_proba_train)
        /\ (Asked /\ dm_call.method = "predict" /\ dm.test.given
            /\ dm_call.data = dm.test.rows
            /\ (dm.args.y_pred_test.given \/ dm.args.y_proba_test.given))
              => /\ dm_call.raised = "none"
                 /\ dm_call.returned = PassedFor(dm.args.y_pred_test, dm.args.y_proba_test)

\* train and test were passed with the same index, both were prefixed, and
\* predict on the rows of test returned the predictions passed for test
C14_Witness ==
    /\ dm.pc = "built"
    /\ GivenTrainIndex = GivenTestIndex /\ dm.args.train.given
    /\ dm.adapter.rewritten
    /\ dm.adapter.validate_data_on_predict
    /\ dm_call.method = "predict"
    /\ dm_call.data = dm.test.rows
    /\ dm_call.raised = "none"
    /\ dm_call.returned = <<2, 2, 2>>

-----------------------------------------------------------------------------
(* Properties of the memoized fields of Context.                           *)

\* every accessor answers after the step what it answered before it
SameAnswers ==
    (ctx.pc = "constructed" /\ ctx'.pc = "constructed")
        => \A name \in Accessors : Call(name, ctx').out = Call(name, ctx).out

\* C15, as stated: over any sequence of accessor calls model validation runs
\* at most once, the importance computation at most once, the observed
\* classes are derived at most once, and every read returns what the first
\* read returned.
C15_EachMemoWrittenOnce ==
    /\ [](/\ ctx.validate_model_calls <= 1
          /\ ctx.importance_calls <= 1
          /\ ctx.observed_derivations <= 1)
    /\ [][SameAnswers]_vars

\* C15, amended: a model validation that passes is the only one that runs,
\* one that fails is run again by the next access and fails again; likewise
\* a derivation of the observed classes that succeeds is the only one, and
\* one that raises leaves the cache empty and is run again; the importance
\* computation runs at most once, and every read returns what the first
\* read returned.
C15_MemoWrittenOnceUnlessInvalid ==
    /\ [](/\ ctx.validated_model => ctx.validate_model_calls <= 1
          /\ ctx.validate_model_calls > 1
                => ValidateModelRaises(ctx.train, ctx.model, ctx.adapter)
          /\ ctx.importance_calls <= 1
          /\ LET labels == GetAllLabels(ctx.model, ctx.adapter, ctx.train, ctx.test,
                                        NoArray, NoArray)
             IN /\ ctx.observed_derivations > 1
                      => (labels.raised # "none" /\ ~ctx.observed_classes.given)
                /\ (ctx.observed_derivations = 1 /\ labels.raised = "none")
                      => ctx.observed_classes.given)
    /\ [][SameAnswers]_vars

\* the model was validated, the importance computed and the observed classes
\* derived, each once, and both model and scorers were read again after
C15_Witness ==
    /\ ctx.pc = "constructed"
    /\ ctx.validated_model /\ ctx.validate_model_calls = 1
    /\ ctx.importance_calls = 1
    /\ ctx.observed_derivations = 1
    /\ Call("model", ctx).ctx = ctx
    /\ Call("get_scorers", ctx).ctx = ctx
    /\ Call("feature_importance", ctx).ctx = ctx

-----------------------------------------------------------------------------
(* Properties of the task assertions.                                      *)

\* what each assertion does to the caller of the constructed Context
ClassificationAsserted == AssertClassificationTask(ctx).out.raised
RegressionAsserted == AssertRegressionTask(ctx).out.raised

\* C16, as stated: assert_classification_task raises whenever the task type
\* is regression and assert_regression_task whenever it is binary or
\* multiclass, whether or not train has a label, and neither raises when the
\* task type matches.
C16_AssertionsFailOnContradiction ==
    ctx.pc = "constructed" =>
        /\ ClassificationAsserted # "none" <=> ctx.task_type = "regression"
        /\ RegressionAsserted # "none" <=> IsClassification(ctx.task_type)

\* C16, amended: an assertion raises ModelValidationError exactly when the
\* task type contradicts it and train has a label; on a contradiction with a
\* train that has no label it does not raise, without a train it fails with
\* the error of the train property, and it never raises when the task type
\* matches.
C16_AssertionsFailOnLabelledContradiction ==
    ctx.pc = "constructed" =>
        /\ ClassificationAsserted = "ModelValidationError"
              <=> (ctx.task_type = "regression" /\ ctx.train.given /\ ctx.train.label # "")
        /\ ClassificationAsserted = "DeepchecksNotSupportedError"
              <=> (ctx.task_type = "regression" /\ ~ctx.train.given)
        /\ RegressionAsserted = "ModelValidationError"
              <=> (IsClassification(ctx.task_type) /\ ctx.train.given /\ ctx.train.label # "")
        /\ RegressionAsserted = "DeepchecksNotSupportedError"
              <=> (IsClassification(ctx.task_type) /\ ~ctx.train.given)
        /\ {ClassificationAsserted, RegressionAsserted}
              \subseteq {"none", "ModelValidationError", "DeepchecksNotSupportedError"}

\* a regression task over a train without label: asserting a classification
\* raises nothing
C16_Witness ==
    /\ ctx.pc = "constructed"
    /\ ctx.task_type = "regression"
    /\ ctx.train.given /\ ctx.train.label = ""
    /\ ClassificationAsserted = "none"
    /\ RegressionAsserted = "none"

-----------------------------------------------------------------------------
(* Properties of the class lists of a regression task.                     *)

\* C17: whenever the resolved task type is regression, both the
\* model_classes accessor and the observed_classes accessor return None,
\* whatever model_classes, label type and predictions were passed.
C17_RegressionHasNoClasses ==
    (ctx.pc = "constructed" /\ ctx.task_type = "regression")
        => /\ ModelClasses(ctx).out = ReturnsClasses(NoClasses)
           /\ ObservedClasses(ctx).out = ReturnsClasses(NoClasses)

\* C18: whenever the constructor builds the static-prediction model and some
\* role has probabilities without predictions, the class list it hands over
\* is a list, so that the predictions of that role can be derived.
C18_AdapterGetsClassList ==
    (/\ ctx.pc = "constructed" \/ ctx.message = MsgAdapter
     /\ BuildsAdapter(ctx_args)
     /\ \/ (ctx_args.y_proba_train.given /\ ~ctx_args.y_pred_train.given)
        \/ (ctx_args.y_proba_test.given /\ ~ctx_args.y_pred_test.given))
        => /\ ctx.raised # "TypeError"
           /\ ctx.pc = "constructed" => ctx.adapter.model_classes.given

-----------------------------------------------------------------------------
(* Properties of the displayed outliers.                                   *)

\* the values one sample contributes, a scalar being a list of one
ValuesOfSample(column, s) ==
    IF column[s + 1].t = "list" THEN column[s + 1].items ELSE <<column[s + 1]>>

\* element i of a Python list, i < 0 counting from the end
FromEnd(xs, i) == xs[Len(xs) + i + 1]

\* C19: for every displayed outlier at flat index f of sample s, the
\* intra-sample index -(cumsum[s] - f) lies in [-len(values[s]), -1] and,
\* counted from the end of the sample's value list, addresses the flattened
\* value: values[s][-(cumsum[s] - f)] == values_arr[f], the sample's value
\* being read as the float it was flattened to.
C19_IntraSampleIndexAddressesValue ==
    scan.pc = "returned" =>
        \A k \in 1..Len(scan.locals) :
            \A j \in 1..Len(scan.locals[k].corpus) :
                LET e == scan.locals[k].corpus[j]
                    f == scan.locals[k].show_indices[j]
                    mine == ValuesOfSample(Scanned[k].values, e.sample_index)
                IN /\ e.index_of_value_in_sample \in (0 - Len(mine))..(-1)
                   /\ e.num_properties_in_sample = Len(mine)
                   /\ ~e.value.nan
                   /\ ToFloat(FromEnd(mine, e.index_of_value_in_sample)) = e.value
                   /\ e.value = FlatValues(Scanned[k].values)[f + 1]

\* a displayed outlier that is the first of the two values of a sample which
\* is not the first sample
C19_Witness ==
    /\ scan.pc = "returned"
    /\ \E k \in 1..Len(scan.locals) : \E j \in 1..Len(scan.locals[k].corpus) :
          /\ scan.locals[k].corpus[j].sample_index > 0
          /\ scan.locals[k].corpus[j].num_properties_in_sample = 2
          /\ scan.locals[k].corpus[j].index_of_value_in_sample = -2

-----------------------------------------------------------------------------
(* Properties of the feature importance of a static-prediction Context.    *)

\* the Context was built over static predictions and no importance was passed
StaticWithoutImportance ==
    /\ ctx.pc = "constructed"
    /\ BuildsAdapter(ctx_args)
    /\ ctx_args.feature_importance = "none"

\* C20: a Context constructed without model, with static predictions and
\* without passed feature importance returns None from every access to
\* feature_importance, after any sequence of accessor calls, and never
\* invokes the importance computation, although a model (the
\* static-prediction model) and a dataset are present.
C20_StaticImportanceIsNone ==
    StaticWithoutImportance
        => /\ ctx.model = "dummy"
           /\ Truthy(ctx.train) \/ Truthy(ctx.test)
           /\ ctx.importance_calls = 0
           /\ FeatureImportance(ctx) = [ctx |-> ctx, out |-> ReturnsText("none")]
           /\ FeatureImportanceType(ctx) = [ctx |-> ctx, out |-> ReturnsText("none")]

\* such a Context after its model was read and validated: feature_importance
\* still answers None without computing
C20_Witness ==
    /\ StaticWithoutImportance
    /\ ctx.validated_model /\ ctx.validate_model_calls = 1
    /\ ctx.importance_calls = 0
    /\ FeatureImportance(ctx).out = ReturnsText("none")

-----------------------------------------------------------------------------
(* Properties of the validation of the rows asked about.                   *)

\* _validate_data ran on the rows asked about
Validated == dm_call.validation \in {"seen", "unseen", "ValueError"}

StoredTables == dm.adapter.feature_df_list

\* for each stored table, the positions of the query whose index label it holds
KnownTo ==
    [j \in 1..Len(StoredTables) |->
        LET labels == TableLabels(StoredTables[j])
        IN {i \in 1..Len(dm_call.data) : LabelOf(dm_call.data[i]) \in labels}]

\* for each stored table, the positions of the query whose row it holds with
\* the same content
SameIn ==
    [j \in 1..Len(StoredTables) |->
        LET rows == {StoredTables[j][k] : k \in 1..Len(StoredTables[j])}
        IN {i \in 1..Len(dm_call.data) : dm_call.data[i] \in rows}]

\* every row asked about is known, and no stored table knows them all
SpansTables(known) ==
    /\ UNION {known[j] : j \in DOMAIN known} = 1..Len(dm_call.data)
    /\ \A j \in DOMAIN known : known[j] # 1..Len(dm_call.data)

\* every row asked about is a row of one stored table, content included
TakenFromOne(same) == \E j \in DOMAIN same : same[j] = 1..Len(dm_call.data)

\* the first table that knows every row asked about stores a different
\* content for each of them
DiffersFromFirst(known, same) ==
    \E j \in DOMAIN known :
        /\ known[j] = 1..Len(dm_call.data)
        /\ \A h \in 1..(j - 1) : known[h] # 1..Len(dm_call.data)
        /\ same[j] = {}

\* the validation can have passed: one table knows as many rows as are
\* sampled and agrees with the query on one of them
MayPass(known, same) ==
    \E j \in DOMAIN known :
        /\ Cardinality(known[j]) >=
              (IF Len(dm_call.data) < SampleSize THEN Len(dm_call.data) ELSE SampleSize)
        /\ same[j] # {}

\* C21, as stated: with validation enabled, a query of known rows spanning
\* the train and the test table raises the unseen-data error, a mismatch
\* with the first table holding the rows raises it, and a query of unchanged
\* rows of one stored table never raises, whatever sample is drawn.
C21_ValidationBySingleTable ==
    Validated =>
        LET known == KnownTo
            same == SameIn
        IN /\ SpansTables(known) => dm_call.validation = "unseen"
           /\ (dm_call.data # <<>> /\ DiffersFromFirst(known, same))
                 => dm_call.validation = "unseen"
           /\ TakenFromOne(same) => dm_call.validation = "seen"

\* C21, amended: with validation enabled, a query of known rows spanning
\* the two tables raises the unseen-data error when it has at most
\* SampleSize rows, and may pass when it has more and the sample falls in
\* one table; a mismatch on every row with the first table holding the rows
\* raises it; a non-empty query of unchanged rows of one stored table never
\* raises; an empty query fails with ValueError; and the validation passes
\* only if one table holds as many rows as are sampled and agrees on one.
C21_ValidationBySampledTable ==
    Validated =>
        LET known == KnownTo
            same == SameIn
        IN /\ (SpansTables(known) /\ Len(dm_call.data) <= SampleSize)
                 => dm_call.validation = "unseen"
           /\ (SpansTables(known) /\ Len(dm_call.data) > SampleSize)
                 => dm_call.validation \in {"seen", "unseen"}
           /\ (dm_call.data # <<>> /\ DiffersFromFirst(known, same))
                 => dm_call.validation = "unseen"
           /\ (dm_call.data # <<>> /\ TakenFromOne(same)) => dm_call.validation = "seen"
           /\ (dm_call.data = <<>> /\ StoredTables # <<>>) => dm_call.validation = "ValueError"
           /\ dm_call.validation = "seen" => MayPass(known, same)
           /\ dm_call.raised = "DeepchecksValueError" <=> dm_call.validation = "unseen"

\* the rows of train and one row of test were asked about together, the
\* sample of SampleSize rows fell into train, and the predictions of all of
\* them were returned
C21_Witness ==
    /\ Validated
    /\ Len(dm_call.data) = SampleSize + 1
    /\ SpansTables(KnownTo)
    /\ dm_call.validation = "seen"
    /\ dm_call.raised = "none"
    /\ Len(dm_call.returned) = SampleSize + 1

====
